---- MODULE Spec2Model ----
(***************************************************************************)
(* A model of the Clio MCP bridge: the resilient API client                *)
(* (src/lib/clio-client-production.ts) and the session store               *)
(* (src/lib/sessions.ts).                                                  *)
(*                                                                         *)
(* Time.  The client's clock clientNow counts milliseconds since the       *)
(* client was constructed.  The session store's clock now counts SECONDS   *)
(* since the process started: Date.now() and 30 days in milliseconds       *)
(* (2,592,000,000) exceed the 32-bit integers of the model checker, and    *)
(* every duration in sessions.ts is a whole number of seconds.             *)
(***************************************************************************)
EXTENDS Integers, Sequences, FiniteSets, TLC

(***************************************************************************)
(* Bounds of the model.                                                    *)
(***************************************************************************)
\* how many times the client's clock advances in one behaviour
MaxClientTicks == 4
\* how many logical calls one client instance issues in one behaviour
MaxCalls == 2
\* how many times the session store's clock advances in one behaviour
MaxTicks == 3
\* how many sessions are created in one behaviour
MaxSessions == 2
\* how many times the rate limiter's clock advances in one behaviour
MaxLimiterTicks == 2
\* how many requests the rate limiter checks in one behaviour
MaxChecks == 12
\* how many requests the invocation endpoint receives in one behaviour
MaxRequests == 2
\* how many times in a row a text is redacted
MaxPasses == 2
\* how often the clock of the client instance under a fan-out advances
MaxInstanceTicks == 1

(***************************************************************************)
(* JavaScript numbers as far as the client needs them: an integer or NaN.  *)
(***************************************************************************)
Num(n) == [nan |-> FALSE, val |-> n]
NaN == [nan |-> TRUE, val |-> 0]
Times(a, k) == IF a.nan THEN NaN ELSE Num(a.val * k)

\* header values are strings, modelled as sequences of one-character strings
DigitChars == <<"0", "1", "2", "3", "4", "5", "6", "7", "8", "9">>
IsDigit(ch) == \E i \in 1..10 : DigitChars[i] = ch
DigitVal(ch) == (CHOOSE i \in 1..10 : DigitChars[i] = ch) - 1

RECURSIVE SkipSpaces(_)
SkipSpaces(s) == IF s # <<>> /\ Head(s) = " " THEN SkipSpaces(Tail(s)) ELSE s

RECURSIVE DigitsPrefix(_, _)
\* the value of the longest prefix of digits of s, read after the digits acc
DigitsPrefix(s, acc) ==
    IF s # <<>> /\ IsDigit(Head(s))
    THEN DigitsPrefix(Tail(s), acc * 10 + DigitVal(Head(s)))
    ELSE acc

\* parseInt(s, 10): leading blanks skipped, an optional sign, then the longest
\* prefix of decimal digits; NaN when there is no digit.
ParseInt(s) ==
    LET t == SkipSpaces(s)
        neg == t # <<>> /\ Head(t) = "-"
        u == IF t # <<>> /\ Head(t) \in {"-", "+"} THEN Tail(t) ELSE t
    IN IF u = <<>> \/ ~IsDigit(Head(u)) THEN NaN
       ELSE Num((IF neg THEN -1 ELSE 1) * DigitsPrefix(u, 0))

(***************************************************************************)
(* The resilient API client.                                               *)
(***************************************************************************)
maxRetries == 3
baseRetryDelay == 1000
timeout == 30000

AuthMessage == "Authentication failed. Please re-authenticate via the web interface."
RateLimitMessage == "Rate limit exceeded. Please try again later."

\* a response header: absent (undefined) or present with a string value
Absent == [present |-> FALSE, value |-> <<>>]
Header(v) == [present |-> TRUE, value |-> v]
\* JavaScript truthiness of a header value: undefined and "" are falsy
Truthy(h) == h.present /\ h.value # <<>>

\* what the remote may send as retry-after: nothing, an empty value, a number
\* of seconds, or something that is not a number (an HTTP date)
RetryAfterValues == {Absent, Header(<<>>), Header(<<"2">>), Header(<<"W", "e", "d">>)}

\* statuses the remote answers with; validateStatus rejects all but 2xx
Statuses == {200, 401, 404, 429, 500, 503}

\* how one attempt ends: a response, or no response at all (the 30 s timeout,
\* a network failure); retry-after comes with a 429 or a 503
Responses ==
    {[kind |-> "response", status |-> s, retryAfter |-> Absent] : s \in Statuses \ {503}}
    \cup {[kind |-> "response", status |-> 429, retryAfter |-> h] : h \in RetryAfterValues}
    \cup {[kind |-> "response", status |-> 503, retryAfter |-> Header(<<"2">>)]}
TimedOut == [kind |-> "timeout", status |-> 0, retryAfter |-> Absent]
NetworkError == [kind |-> "network", status |-> 0, retryAfter |-> Absent]

Pow2(k) == 2 ^ k

calculateBackoffDelay_NoGrowth(retryCount) == Num(baseRetryDelay)

\* this.baseRetryDelay * Math.pow(2, retryCount)
calculateBackoffDelay(retryCount) == Num(baseRetryDelay * Pow2(retryCount))

SleepMs_NoWait(ms) == 1

\* setTimeout(resolve, ms): a delay that is not a number in 1..2^31-1 is 1 ms
SleepMs(ms) == IF ms.nan \/ ms.val < 1 THEN 1 ELSE ms.val

VARIABLES
    clientNow,      \* the client's clock, ms
    clientTicks,    \* how often the clock has advanced
    callsIssued,    \* logical calls started on this instance
    phase,          \* "idle" | "inflight" | "sleeping" | "done" of the current call
    retryCount,     \* config.__retryCount || 0
    attempts,       \* remote attempts made for the current call
    startedAt,      \* when the current call was issued
    sentAt,         \* when the attempt in flight was dispatched
    sleptFrom,      \* when the sleep in progress began
    wakeAt,         \* when the sleep in progress ends
    outcomes,       \* how each attempt of the current call ended, in order
    waits,          \* the waitTime slept before each retry, in order
    result          \* what the caller got

clientVars == <<clientNow, clientTicks, callsIssued, phase, retryCount, attempts,
                startedAt, sentAt, sleptFrom, wakeAt, outcomes, waits, result>>

Pending == [kind |-> "pending", status |-> 0, message |-> ""]
\* the response handed to the caller
Resolved(o) == [kind |-> "response", status |-> o.status, message |-> ""]
\* the AxiosError of an attempt, handed on as it is
AxiosError(o) ==
    [kind |-> "AxiosError", status |-> o.status,
     message |-> IF o.kind = "timeout" THEN "timeout of 30000ms exceeded"
                 ELSE IF o.kind = "network" THEN "Network Error"
                 ELSE "Request failed"]
PlainError(msg) == [kind |-> "Error", status |-> 0, message |-> msg]

ClientInit ==
    /\ clientNow = 0
    /\ clientTicks = 0
    /\ callsIssued = 0
    /\ phase = "idle"
    /\ retryCount = 0
    /\ attempts = 0
    /\ startedAt = 0
    /\ sentAt = 0
    /\ sleptFrom = 0
    /\ wakeAt = 0
    /\ outcomes = <<>>
    /\ waits = <<>>
    /\ result = Pending

\* when the pending timer fires: the sleep's, or the request timeout's
Deadline == IF phase = "sleeping" THEN wakeAt ELSE sentAt + timeout

\* the clock advances while a call is under way: by a second, or up to the
\* pending timer
ClientTick ==
    /\ clientTicks < MaxClientTicks
    /\ phase \in {"inflight", "sleeping"}
    /\ \E d \in {1000} \cup {Deadline - clientNow} :
          /\ d > 0
          /\ clientNow' = clientNow + d
    /\ clientTicks' = clientTicks + 1
    /\ UNCHANGED <<callsIssued, phase, retryCount, attempts, startedAt, sentAt,
                   sleptFrom, wakeAt, outcomes, waits, result>>

\* time passes until the pending timer fires: the sleep's setTimeout, or
\* the timeout of the attempt in flight
TimerFires ==
    /\ phase \in {"inflight", "sleeping"}
    /\ clientNow < Deadline
    /\ clientNow' = Deadline
    /\ UNCHANGED <<clientTicks, callsIssued, phase, retryCount, attempts, startedAt, sentAt,
                   sleptFrom, wakeAt, outcomes, waits, result>>

\* axiosInstance.request(config) of a fresh config: the first attempt of a call
StartCall ==
    /\ phase \in {"idle", "done"}
    /\ callsIssued < MaxCalls
    /\ callsIssued' = callsIssued + 1
    /\ phase' = "inflight"
    /\ retryCount' = 0
    /\ attempts' = 1
    /\ startedAt' = clientNow
    /\ sentAt' = clientNow
    /\ outcomes' = <<>>
    /\ waits' = <<>>
    /\ result' = Pending
    /\ UNCHANGED <<clientNow, clientTicks, sleptFrom, wakeAt>>

\* the response interceptor's success handler: a 2xx is handed to the caller
OnResponse(o) ==
    /\ phase' = "done"
    /\ result' = Resolved(o)
    /\ UNCHANGED <<retryCount, sleptFrom, wakeAt, waits>>

\* retryAfter ? parseInt(retryAfter, 10) * 1000 : this.calculateBackoffDelay(retryCount)
RateLimitWait(o, rc) ==
    IF Truthy(o.retryAfter) THEN Times(ParseInt(o.retryAfter.value), 1000)
    ELSE calculateBackoffDelay(rc)

ShouldRetry_Never(rc) == FALSE

ShouldRetry_Always(rc) == TRUE

ShouldRetry_OneMore(rc) == rc <= maxRetries

\* retryCount < this.maxRetries
ShouldRetry(rc) == rc < maxRetries

\* error.response?.status && error.response.status >= 500
IsServerError(o) == o.kind = "response" /\ o.status # 0 /\ o.status >= 500

Is401_Never(o) == FALSE

\* error.response?.status === 401
Is401(o) == o.kind = "response" /\ o.status = 401

\* error.response?.status === 429
Is429(o) == o.kind = "response" /\ o.status = 429

\* await this.sleep(waitTime) begins
BeginSleep(w) ==
    /\ phase' = "sleeping"
    /\ sleptFrom' = clientNow
    /\ wakeAt' = clientNow + SleepMs(w)
    /\ waits' = Append(waits, w)
    /\ UNCHANGED <<retryCount, result>>

\* return Promise.reject(r)
Reject(r) ==
    /\ phase' = "done"
    /\ result' = r
    /\ UNCHANGED <<retryCount, sleptFrom, wakeAt, waits>>

\* the response interceptor's error handler, up to its first await or return
OnError(o) ==
    IF Is401(o)
    THEN Reject(PlainError(AuthMessage))
    ELSE IF Is429(o)
    THEN IF ShouldRetry(retryCount)
         THEN BeginSleep(RateLimitWait(o, retryCount))
         ELSE Reject(PlainError(RateLimitMessage))
    ELSE IF IsServerError(o) /\ ShouldRetry(retryCount)
    THEN BeginSleep(calculateBackoffDelay(retryCount))
    ELSE Reject(AxiosError(o))

\* the attempt in flight ends: a response within the timeout, a network
\* failure, or no response when the timeout has elapsed
AttemptEnds ==
    /\ phase = "inflight"
    /\ \E o \in Responses \cup {TimedOut, NetworkError} :
        /\ IF o.kind = "timeout" THEN clientNow >= sentAt + timeout
           ELSE clientNow < sentAt + timeout
        /\ outcomes' = Append(outcomes, o)
        /\ IF o.kind = "response" /\ o.status = 200 THEN OnResponse(o) ELSE OnError(o)
    /\ UNCHANGED <<clientNow, clientTicks, callsIssued, attempts, startedAt, sentAt>>

\* the sleep is over: config.__retryCount = retryCount + 1 and
\* this.axiosInstance.request(config) issues the request again
Retry ==
    /\ phase = "sleeping"
    /\ clientNow >= wakeAt
    /\ retryCount' = retryCount + 1
    /\ attempts' = attempts + 1
    /\ phase' = "inflight"
    /\ sentAt' = clientNow
    /\ UNCHANGED <<clientNow, clientTicks, callsIssued, startedAt, sleptFrom, wakeAt,
                   outcomes, waits, result>>

(***************************************************************************)
(* The session store (Token Broker).                                       *)
(***************************************************************************)
Day == 24 * 60 * 60
\* 30 * 24 * 60 * 60 * 1000 ms
sessionTtl == 30 * Day
\* 7 * 24 * 60 * 60 * 1000 ms
refreshThreshold == 7 * Day

NoToken == "null"
\* what getClioToken() may yield for the request at hand
Credentials == {"tokA", "tokB"}
NotAuthenticatedMessage ==
    "Not authenticated. Please authenticate via the web interface first."

VARIABLES
    now,            \* the store's clock, seconds
    ticks,          \* how often the clock has advanced
    sessionStore,   \* the Map: session id -> [token, expiresAt, createdAt]
    issued,         \* issued[i]: the credential session id i was created with
    lastOp          \* the last operation and what it returned

sessionVars == <<now, ticks, sessionStore, issued, lastOp>>

\* randomBytes(32): an id no earlier call returned; ids are numbered in the
\* order they are generated, and 0 stands for an id that was never generated
NeverIssued == 0
KnownIds == 0..Len(issued)

\* lastOp: the operation, its arguments, what it found under the id ("absent",
\* "expired", "live", or "refreshed" for a lookup that extended the session),
\* the token it returned or was given, and the error it threw; a clock advance
\* counts as the operation "tick"
Op(op, id, autoRefresh, found, token, threw) ==
    [op |-> op, id |-> id, autoRefresh |-> autoRefresh, found |-> found, token |-> token,
     threw |-> threw]

SessionsInit ==
    /\ now = 0
    /\ ticks = 0
    /\ sessionStore = <<>>
    /\ issued = <<>>
    /\ lastOp = Op("init", NeverIssued, FALSE, "", NoToken, "")

\* Map.set
MapSet(m, k, v) == [i \in DOMAIN m \cup {k} |-> IF i = k THEN v ELSE m[i]]
\* Map.delete
MapDelete(m, k) == [i \in DOMAIN m \ {k} |-> m[i]]

NewSession_Backdated(token, t) ==
    [token |-> token, expiresAt |-> t - 1, createdAt |-> t]

NewSession_SevenDays(token, t) ==
    [token |-> token, expiresAt |-> t + refreshThreshold, createdAt |-> t]

\* the entry createSession stores
NewSession(token, t) ==
    [token |-> token, expiresAt |-> t + sessionTtl, createdAt |-> t]

IsExpired_Inclusive(s, t) == s.expiresAt <= t

\* session.expiresAt < Date.now()
IsExpired(s, t) == s.expiresAt < t

\* what the store holds under an id at time t
Found(m, sessionId, t) ==
    IF sessionId \notin DOMAIN m THEN "absent"
    ELSE IF IsExpired(m[sessionId], t) THEN "expired"
    ELSE "live"

NeedsRefresh_Never(s, t) == FALSE

NeedsRefresh_Always(s, t) == TRUE

\* timeUntilExpiry < refreshThreshold
NeedsRefresh(s, t) == s.expiresAt - t < refreshThreshold

\* the clock advances: by a second, by 7, 23 or 31 days
Tick ==
    /\ ticks < MaxTicks
    /\ \E d \in {1, 7 * Day, 23 * Day, 31 * Day} : now' = now + d
    /\ ticks' = ticks + 1
    /\ lastOp' = Op("tick", NeverIssued, FALSE, "", NoToken, "")
    /\ UNCHANGED <<sessionStore, issued>>

\* createSession(), getClioToken() yielding cred (NoToken: no credential)
createSession(cred) ==
    IF cred = NoToken
    THEN /\ lastOp' = Op("create", NeverIssued, FALSE, "", NoToken, NotAuthenticatedMessage)
         /\ UNCHANGED <<now, ticks, sessionStore, issued>>
    ELSE /\ Len(issued) < MaxSessions
         /\ LET sessionId == Len(issued) + 1
            IN /\ sessionStore' = MapSet(sessionStore, sessionId, NewSession(cred, now))
               /\ issued' = Append(issued, cred)
               /\ lastOp' = Op("create", sessionId, FALSE, "", cred, "")
         /\ UNCHANGED <<now, ticks>>

\* the store getSessionToken(sessionId, autoRefresh) leaves behind
StoreAfterGet(m, sessionId, autoRefresh, t) ==
    IF sessionId \notin DOMAIN m THEN m
    ELSE IF IsExpired(m[sessionId], t) THEN MapDelete(m, sessionId)
    ELSE IF autoRefresh /\ NeedsRefresh(m[sessionId], t)
    THEN MapSet(m, sessionId, [m[sessionId] EXCEPT !.expiresAt = t + sessionTtl])
    ELSE m

\* what getSessionToken(sessionId, autoRefresh) returns
TokenOfGet(m, sessionId, t) ==
    IF sessionId \notin DOMAIN m THEN NoToken
    ELSE IF IsExpired(m[sessionId], t) THEN NoToken
    ELSE m[sessionId].token

getSessionToken(sessionId, autoRefresh) ==
    /\ sessionStore' = StoreAfterGet(sessionStore, sessionId, autoRefresh, now)
    /\ lastOp' = Op("resolve", sessionId, autoRefresh,
                    IF StoreAfterGet(sessionStore, sessionId, autoRefresh, now) = sessionStore
                    THEN Found(sessionStore, sessionId, now)
                    ELSE IF Found(sessionStore, sessionId, now) = "live" THEN "refreshed"
                    ELSE Found(sessionStore, sessionId, now),
                    TokenOfGet(sessionStore, sessionId, now), "")
    /\ UNCHANGED <<now, ticks, issued>>

StoreAfterDelete_OnlyLive(m, sessionId, t) ==
    IF sessionId \in DOMAIN m /\ ~IsExpired(m[sessionId], t)
    THEN MapDelete(m, sessionId) ELSE m

\* sessionStore.delete(sessionId)
StoreAfterDelete(m, sessionId, t) == MapDelete(m, sessionId)

deleteSession(sessionId) ==
    /\ sessionStore' = StoreAfterDelete(sessionStore, sessionId, now)
    /\ lastOp' = Op("revoke", sessionId, FALSE, Found(sessionStore, sessionId, now), NoToken, "")
    /\ UNCHANGED <<now, ticks, issued>>

\* null, as getSession returns it
NoSession == [token |-> NoToken, expiresAt |-> 0, createdAt |-> 0]

\* sessionStore.get(sessionId) || null
SessionInfo(m, sessionId) == IF sessionId \in DOMAIN m THEN m[sessionId] ELSE NoSession

\* getSession(sessionId): the entry as it is stored, nothing is changed
getSession(sessionId) ==
    /\ lastOp' = Op("info", sessionId, FALSE, Found(sessionStore, sessionId, now),
                    SessionInfo(sessionStore, sessionId).token, "")
    /\ UNCHANGED <<now, ticks, sessionStore, issued>>

\* the store the sweep leaves behind at time t
SweptStore(m, t) == [i \in {j \in DOMAIN m : ~IsExpired(m[j], t)} |-> m[i]]

\* the setInterval callback: every expired entry is deleted
cleanupExpired ==
    /\ sessionStore' = SweptStore(sessionStore, now)
    /\ lastOp' = Op("sweep", NeverIssued, FALSE, "", NoToken, "")
    /\ UNCHANGED <<now, ticks, issued>>

(***************************************************************************)
(* The inbound rate limiter (src/lib/rate-limiter.ts).  Its clock rlNow    *)
(* counts milliseconds.                                                    *)
(***************************************************************************)
maxRequests == 10
windowMs == 60000

\* s.startsWith(p)
StartsWith(s, p) == Len(s) >= Len(p) /\ SubSeq(s, 1, Len(p)) = p
\* s.substring(n)
Substring(s, n) == SubSeq(s, n + 1, Len(s))

RECURSIVE FirstField(_)
\* s.split(',')[0]
FirstField(s) ==
    IF s = <<>> \/ Head(s) = "," THEN <<>> ELSE <<Head(s)>> \o FirstField(Tail(s))

RECURSIVE TrimEnd(_)
TrimEnd(s) == IF s # <<>> /\ s[Len(s)] = " " THEN TrimEnd(SubSeq(s, 1, Len(s) - 1)) ELSE s
\* s.trim()
Trim(s) == TrimEnd(SkipSpaces(s))

\* Math.ceil(a / b), b > 0
CeilDiv(a, b) == -((-a) \div b)
\* Math.max(a, b)
Max(a, b) == IF a >= b THEN a ELSE b

Bearer == <<"B", "e", "a", "r", "e", "r", " ">>
BearerSession == Bearer \o <<"s", "e", "s", "s", "i", "o", "n", ":">>

\* what the limiter and the client factory read of a Request: the sessionId
\* query parameter and four headers, each absent or a text
Request(sessionId, authorization, xMcpSessionId, forwardedFor, realIp) ==
    [sessionId |-> sessionId, authorization |-> authorization,
     xMcpSessionId |-> xMcpSessionId, forwardedFor |-> forwardedFor, realIp |-> realIp]

\* the texts of two session ids and of two addresses
Sid1 == <<"1">>
Sid2 == <<"2">>
IpA == <<"a">>
IpB == <<"b">>

\* the requests the limiter is shown
LimiterRequests ==
    { Request(Header(Sid1), Absent, Header(Sid2), Header(IpB), Absent),
      Request(Header(<<>>), Header(BearerSession \o Sid1), Absent, Header(IpB), Absent),
      Request(Absent, Absent, Header(Sid1), Header(<<" ">> \o IpA \o <<",", " ">> \o IpB), Absent),
      Request(Absent, Header(Bearer \o <<"t">>), Header(Sid1), Header(<<>>), Header(IpA)),
      Request(Absent, Absent, Header(Sid1), Absent, Absent) }

\* getRequestIdentifier(request): `session:${id}` or `ip:${ip}`
getRequestIdentifier(request) ==
    IF Truthy(request.sessionId) THEN <<"session:">> \o request.sessionId.value
    ELSE IF Truthy(request.authorization) /\ StartsWith(request.authorization.value, BearerSession)
    THEN <<"session:">> \o Substring(request.authorization.value, 15)
    ELSE <<"ip:">> \o
         (IF Truthy(request.forwardedFor) THEN Trim(FirstField(request.forwardedFor.value))
          ELSE IF Truthy(request.realIp) THEN request.realIp.value
          ELSE <<"unknown">>)

VARIABLES
    rlNow,           \* the limiter's clock, milliseconds
    rlTicks,         \* how often that clock has advanced
    rlChecks,        \* how many requests the limiter has checked
    rateLimitStore,  \* the Map: identifier -> [count, resetAt]
    rlLast           \* the last request checked and what checkRateLimit returned

limiterVars == <<rlNow, rlTicks, rlChecks, rateLimitStore, rlLast>>

NoRequest == Request(Absent, Absent, Absent, Absent, Absent)

NoCheck ==
    [request |-> NoRequest, identifier |-> <<>>, created |-> FALSE, count |-> 0,
     allowed |-> TRUE, remaining |-> 0, resetAt |-> 0, headers |-> <<>>]

LimiterInit ==
    /\ rlNow = 0
    /\ rlTicks = 0
    /\ rlChecks = 0
    /\ rateLimitStore = <<>>
    /\ rlLast = NoCheck

WindowOver_Always(entry, t) == TRUE

\* entry.resetAt < now
WindowOver(entry, t) == entry.resetAt < t

\* whether checkRateLimit starts a new entry for the identifier
StartsWindow(store, identifier, t) ==
    identifier \notin DOMAIN store \/ WindowOver(store[identifier], t)

\* the entry checkRateLimit stores: a new or the current one, its count incremented
EntryAfterCheck(store, identifier, t, window) ==
    LET entry == IF StartsWindow(store, identifier, t)
                 THEN [count |-> 0, resetAt |-> t + window]
                 ELSE store[identifier]
    IN [entry EXCEPT !.count = @ + 1]

\* the headers checkRateLimit returns, by name
RateLimitHeaders(entry, t, maxReq) ==
    LET allowed == entry.count <= maxReq
        names == {"X-RateLimit-Limit", "X-RateLimit-Remaining", "X-RateLimit-Reset"}
                     \cup (IF allowed THEN {} ELSE {"Retry-After"})
    IN [n \in names |->
           IF n = "X-RateLimit-Limit" THEN maxReq
           ELSE IF n = "X-RateLimit-Remaining" THEN Max(0, maxReq - entry.count)
           ELSE IF n = "X-RateLimit-Reset" THEN CeilDiv(entry.resetAt, 1000)
           ELSE CeilDiv(entry.resetAt - t, 1000)]

\* what checkRateLimit(request, maxReq, window) returns at time t
RateLimitResult(store, request, t, maxReq, window) ==
    LET identifier == getRequestIdentifier(request)
        entry == EntryAfterCheck(store, identifier, t, window)
    IN [request |-> request, identifier |-> identifier,
        created |-> StartsWindow(store, identifier, t),
        count |-> entry.count,
        allowed |-> entry.count <= maxReq,
        remaining |-> Max(0, maxReq - entry.count),
        resetAt |-> entry.resetAt,
        headers |-> RateLimitHeaders(entry, t, maxReq)]

\* the store checkRateLimit(request, maxReq, window) leaves behind
StoreAfterCheck(store, request, t, window) ==
    MapSet(store, getRequestIdentifier(request),
           EntryAfterCheck(store, getRequestIdentifier(request), t, window))

\* checkRateLimit(request) with the default limits
checkRateLimit(request) ==
    /\ rlChecks < MaxChecks
    /\ rateLimitStore' = StoreAfterCheck(rateLimitStore, request, rlNow, windowMs)
    /\ rlLast' = RateLimitResult(rateLimitStore, request, rlNow, maxRequests, windowMs)
    /\ rlChecks' = rlChecks + 1
    /\ UNCHANGED <<rlNow, rlTicks>>

\* the limiter's clock advances, by a millisecond or by the window; rlLast
\* describes the last check only until the clock advances or the sweep runs
LimiterTick ==
    /\ rlTicks < MaxLimiterTicks
    /\ \E d \in {1, windowMs} : rlNow' = rlNow + d
    /\ rlTicks' = rlTicks + 1
    /\ rlLast' = NoCheck
    /\ UNCHANGED <<rlChecks, rateLimitStore>>

\* the setInterval callback: every entry whose window is over is deleted
cleanupRateLimit ==
    /\ rateLimitStore' =
           [k \in {i \in DOMAIN rateLimitStore : ~WindowOver(rateLimitStore[i], rlNow)}
               |-> rateLimitStore[k]]
    /\ rlLast' = NoCheck
    /\ UNCHANGED <<rlNow, rlTicks, rlChecks>>

(***************************************************************************)
(* A caller of the limited endpoint. It keeps the last denial it was given *)
(* (429 with Retry-After) until it has sent its next request.              *)
(***************************************************************************)
VARIABLES
    lastDenial      \* the denial kept: identifier, time (ms), Retry-After (s)

retryVars == <<lastDenial>>

NoDenial == [identifier |-> <<>>, at |-> 0, retryAfter |-> 0]

RetryInit == lastDenial = NoDenial

\* what the caller keeps after the answer to its request at time t
DenialAfter(kept, answer, t) ==
    IF ~answer.allowed
    THEN [identifier |-> answer.identifier, at |-> t,
          retryAfter |-> answer.headers["Retry-After"]]
    ELSE IF answer.identifier = kept.identifier THEN NoDenial
    ELSE kept

\* the caller sends a request through checkRateLimit
CallerRequests(request) ==
    /\ checkRateLimit(request)
    /\ lastDenial' = DenialAfter(lastDenial, rlLast', rlNow)

(***************************************************************************)
(* Matter Intelligence Brief (src/lib/tools/matter-intelligence-brief.ts). *)
(* A text is a string, the empty string standing for an absent or empty    *)
(* field; the Markdown document is the sequence of its lines, each line a  *)
(* sequence of the pieces it is put together from, <<>> the blank line.    *)
(***************************************************************************)
\* what a fetch ends with: the payload of the response envelope, or the error
\* the client rejects with
Fulfilled(data) == [status |-> "fulfilled", data |-> data, error |-> ""]
Rejected(message) == [status |-> "rejected", data |-> <<>>, error |-> message]
Unsettled == [status |-> "pending", data |-> <<>>, error |-> ""]

NotFoundMessage == "Request failed with status code 404"

\* {}: a matter none of whose fields is defined
NoMatter ==
    [display_number |-> "", description |-> "", status |-> "", practice_area |-> "",
     custom_fields |-> <<>>, contacts |-> <<>>]

\* the matters the remote may return: one with custom fields and a contact,
\* one with nothing but a number, one whose only custom field has no value
Matters ==
    { [display_number |-> "2024-001", description |-> "Smith v. Jones", status |-> "Open",
       practice_area |-> "Litigation",
       custom_fields |-> << [name |-> "Date of Accident", value |-> "2024-01-15"],
                            [name |-> "Opposing Counsel", value |-> ""] >>,
       contacts |-> << [name |-> "John Doe", role |-> "Client"] >>],
      [NoMatter EXCEPT !.display_number = "2024-002"],
      [NoMatter EXCEPT !.display_number = "2024-003",
                       !.custom_fields = << [name |-> "Opposing Counsel", value |-> ""] >>] }

\* the file note lists and calendar entry lists the remote may return; each
\* attribute comes under the first name of its fallback chain
FileNoteLists ==
    { <<>>,
      << [note |-> "Called client", created_at |-> "2024-02-10", created_by |-> "Jane"],
         [note |-> "Filed motion", created_at |-> "2024-02-01", created_by |-> ""] >> }

\* a file note of the mock data file
MockNote(matterId, day) ==
    [matter_id |-> matterId, note |-> "Note", created_at |-> day, created_by |-> ""]

\* the days file notes are written on, the earliest first
Days ==
    <<"2024-02-02", "2024-02-03", "2024-02-04", "2024-02-05", "2024-02-06", "2024-02-07",
      "2024-02-08">>

\* contents of file_notes.json: seven notes of matter 12345 and one of another
\* matter, kept latest first or in the order they were written
MockFileNoteFiles ==
    { [k \in 1..8 |-> IF k = 3 THEN MockNote("12346", "2024-02-05")
                      ELSE MockNote("12345", Days[IF k < 3 THEN k ELSE k - 1])],
      [k \in 1..8 |-> IF k = 3 THEN MockNote("12346", "2024-02-05")
                      ELSE MockNote("12345", Days[8 - (IF k < 3 THEN k ELSE k - 1)])] }

\* MockClioClient get of /matters/{id}/file_notes: the notes of the matter as
\* the file has them; params.limit and params.order are not looked at
MockGetFileNotes(allFileNotes, matterId) ==
    SelectSeq(allFileNotes, LAMBDA note : note.matter_id = matterId)
CalendarEntryLists ==
    { <<>>,
      << [subject |-> "Court Hearing", start_at |-> "2024-03-01", assigned_to |-> ""] >> }

FetchNames == {"matter", "file_notes", "calendar_entries"}

\* what each of the three fetches may end with
FetchOutcomes(f) ==
    (IF f = "matter" THEN {Fulfilled(m) : m \in Matters}
     ELSE IF f = "file_notes"
          THEN {Fulfilled(l) : l \in FileNoteLists}
                   \cup {Fulfilled(MockGetFileNotes(file, "12345")) : file \in MockFileNoteFiles}
     ELSE {Fulfilled(l) : l \in CalendarEntryLists})
        \cup {Rejected(AuthMessage), Rejected(NotFoundMessage)}

RECURSIVE Concat(_)
\* the lines of several pieces of text, one after the other
Concat(parts) == IF parts = <<>> THEN <<>> ELSE Head(parts) \o Concat(Tail(parts))

\* a line that is written only if the text is truthy
Optional(text, line) == IF text # "" THEN <<line>> ELSE <<>>

\* .catch(() => ({ data: { data: [] } }))
CatchEmpty(outcome) == IF outcome.status = "rejected" THEN Fulfilled(<<>>) ELSE outcome

IsFulfilled_Never(outcome) == FALSE

\* result.status === 'fulfilled'
IsFulfilled(outcome) == outcome.status = "fulfilled"

\* result.status === 'fulfilled' ? result.value : fallback, and the payload of it
SettledData(outcome, fallback) == IF IsFulfilled(outcome) THEN outcome.data ELSE fallback

\* the custom fields that have a value, as name and value
ExtractCustomFields(matter) ==
    LET valued == SelectSeq(matter.custom_fields, LAMBDA field : field.value # "")
    IN [k \in DOMAIN valued |-> <<valued[k].name, valued[k].value>>]

\* fileNotes.slice(0, 5)
FirstFive(list) == SubSeq(list, 1, IF Len(list) < 5 THEN Len(list) ELSE 5)

\* a file note as an item of recent activity
RecentActivity(note) ==
    [note |-> note.note, created_at |-> note.created_at, created_by |-> note.created_by]

\* a calendar entry as a pending task
PendingTask(entry) ==
    [subject |-> entry.subject, due_date |-> entry.start_at,
     assigned_to |-> entry.assigned_to]

\* a contact relation of the matter as a related contact
RelatedContact(contact) == [name |-> contact.name, role |-> contact.role]

\* the MatterIntelligenceBriefResult built from the three settled fetches
BriefResult(matterOutcome, fileNotesOutcome, calendarOutcome) ==
    LET matter == SettledData(matterOutcome, NoMatter)
        fileNotes == SettledData(CatchEmpty(fileNotesOutcome), <<>>)
        calendarEntries == SettledData(CatchEmpty(calendarOutcome), <<>>)
    IN [matter |-> [display_number |-> matter.display_number,
                    description |-> matter.description, status |-> matter.status,
                    practice_area |-> matter.practice_area],
        recent_activity |->
            [k \in DOMAIN FirstFive(fileNotes) |-> RecentActivity(FirstFive(fileNotes)[k])],
        pending_tasks |-> [k \in DOMAIN calendarEntries |-> PendingTask(calendarEntries[k])],
        case_metadata |->
            [custom_fields |-> ExtractCustomFields(matter),
             related_contacts |->
                 [k \in DOMAIN matter.contacts |-> RelatedContact(matter.contacts[k])]]]

NoNotesLine == <<"*No recent file notes found.*">>
NoEntriesLine == <<"*No upcoming calendar entries found.*">>

ActivityLines(activity) ==
    << <<"### ", activity.created_at>> >>
        \o Optional(activity.created_by, <<"*By: ", activity.created_by, "*">>)
        \o << <<activity.note>>, <<>> >>

TaskLine(task) ==
    <<"- **", task.subject, "**">>
        \o (IF task.due_date # "" THEN <<" (Due: ", task.due_date, ")">> ELSE <<>>)
        \o (IF task.assigned_to # "" THEN <<" - Assigned to: ", task.assigned_to>> ELSE <<>>)

ContactLine(contact) ==
    <<"- **", contact.name, "**">>
        \o (IF contact.role # "" THEN <<" (", contact.role, ")">> ELSE <<>>)

\* formatIntelligenceBriefAsMarkdown(result)
formatIntelligenceBriefAsMarkdown(briefResult) ==
    LET matter == briefResult.matter
        recent_activity == briefResult.recent_activity
        pending_tasks == briefResult.pending_tasks
        case_metadata == briefResult.case_metadata
    IN << <<"# Matter Intelligence Brief">>, <<>>, <<"**Matter:** ", matter.display_number>> >>
       \o Optional(matter.description, <<"**Description:** ", matter.description>>)
       \o Optional(matter.status, <<"**Status:** ", matter.status>>)
       \o Optional(matter.practice_area, <<"**Practice Area:** ", matter.practice_area>>)
       \o << <<>>, <<"---">>, <<>> >>
       \o << <<"## Recent Activity">>, <<>> >>
       \o (IF Len(recent_activity) = 0 THEN <<NoNotesLine, <<>> >>
           ELSE Concat([k \in DOMAIN recent_activity |-> ActivityLines(recent_activity[k])]))
       \o << <<"## Pending Tasks">>, <<>> >>
       \o (IF Len(pending_tasks) = 0 THEN <<NoEntriesLine, <<>> >>
           ELSE [k \in DOMAIN pending_tasks |-> TaskLine(pending_tasks[k])] \o << <<>> >>)
       \o << <<"## Case Metadata">>, <<>> >>
       \o (IF Len(case_metadata.custom_fields) > 0
           THEN << <<"### Custom Fields">>, <<>> >>
                \o [k \in DOMAIN case_metadata.custom_fields |->
                       <<"- **", case_metadata.custom_fields[k][1], ":** ",
                         case_metadata.custom_fields[k][2]>>]
                \o << <<>> >>
           ELSE <<>>)
       \o (IF Len(case_metadata.related_contacts) > 0
           THEN << <<"### Related Contacts">>, <<>> >>
                \o [k \in DOMAIN case_metadata.related_contacts |->
                       ContactLine(case_metadata.related_contacts[k])]
                \o << <<>> >>
           ELSE <<>>)

VARIABLES
    briefPhase,   \* "idle", "fetching" (the fan-out is awaited) or "done"
    fetches,      \* fetches[f]: what fetch f has ended with, Unsettled until then
    brief         \* what getMatterIntelligenceBrief ended with

briefVars == <<briefPhase, fetches, brief>>

NoBrief == [threw |-> "", result |-> <<>>, markdown |-> <<>>]

BriefInit ==
    /\ briefPhase = "idle"
    /\ fetches = [f \in FetchNames |-> [status |-> "unissued", data |-> <<>>, error |-> ""]]
    /\ brief = NoBrief

\* getMatterIntelligenceBrief up to the await: the three calls are issued
StartBrief ==
    /\ briefPhase = "idle"
    /\ briefPhase' = "fetching"
    /\ fetches' = [f \in FetchNames |-> Unsettled]
    /\ UNCHANGED brief

\* one of the three calls ends
Settle(f, outcome) ==
    /\ briefPhase = "fetching"
    /\ fetches[f].status = "pending"
    /\ fetches' = [fetches EXCEPT ![f] = outcome]
    /\ UNCHANGED <<briefPhase, brief>>

\* Promise.allSettled resolves once all three have ended; the brief is built
FinishBrief ==
    /\ briefPhase = "fetching"
    /\ \A f \in FetchNames : fetches[f].status # "pending"
    /\ briefPhase' = "done"
    /\ LET briefResult == BriefResult(fetches["matter"], fetches["file_notes"],
                                      fetches["calendar_entries"])
       IN brief' = [threw |-> "", result |-> briefResult,
                    markdown |-> formatIntelligenceBriefAsMarkdown(briefResult)]
    /\ UNCHANGED fetches

(***************************************************************************)
(* Ethical Conflict Check (src/lib/tools/ethical-conflict-check.ts).  A    *)
(* text that is searched is the sequence of its characters.                *)
(***************************************************************************)
searchLimit == 100
detailLimit == 20

UpperLetters ==
    <<"A", "B", "C", "D", "E", "F", "G", "H", "I", "J", "K", "L", "M",
      "N", "O", "P", "Q", "R", "S", "T", "U", "V", "W", "X", "Y", "Z">>
LowerLetters ==
    <<"a", "b", "c", "d", "e", "f", "g", "h", "i", "j", "k", "l", "m",
      "n", "o", "p", "q", "r", "s", "t", "u", "v", "w", "x", "y", "z">>

\* String.prototype.toLowerCase, character by character
LowerChar(c) ==
    IF \E k \in 1..26 : UpperLetters[k] = c
    THEN LowerLetters[CHOOSE k \in 1..26 : UpperLetters[k] = c]
    ELSE c
ToLowerCase(text) == [k \in DOMAIN text |-> LowerChar(text[k])]

\* String.prototype.includes
Includes(text, part) ==
    \E k \in 0..(Len(text) - Len(part)) : SubSeq(text, k + 1, k + Len(part)) = part

Jane == <<"J", "a", "n", "e">>
Bob == <<"B", "o", "b">>
Dan == <<"D", "a", "n">>

\* the search queries: a name in other case, a part of names, a text found nowhere
Queries == { <<"j", "a", "n", "e">>, <<"A", "N">>, <<"z", "z">> }

\* the contacts and the matters the remote holds
RemoteContacts == << [id |-> "c1", name |-> Jane], [id |-> "c2", name |-> Bob] >>
RemoteMatters ==
    << [id |-> "12345", display_number |-> <<"1">>, description |-> <<"P", "I">>,
        status |-> "Open", closed_date |-> "",
        contacts |-> << [id |-> "c1", name |-> Jane, role |-> "Client"],
                        [id |-> "c2", name |-> Bob, role |-> ""] >>,
        custom_fields |-> << [name |-> "Opposing Counsel", value |-> <<"J", "A", "N", "E", "T">>],
                             [name |-> "", value |-> <<>>] >>],
       [id |-> "12346", display_number |-> <<"2">>, description |-> Jane,
        status |-> "Closed", closed_date |-> "2024-01-01",
        contacts |-> <<>>, custom_fields |-> <<>>],
       [id |-> "12347", display_number |-> <<"3">>, description |-> <<>>,
        status |-> "Open", closed_date |-> "",
        contacts |-> << [id |-> "c3", name |-> Dan, role |-> "Witness"] >>,
        custom_fields |-> << [name |-> "", value |-> Jane] >>] >>

\* get('/contacts', {params: {q}}): the contacts whose name contains the query
SearchContacts(q) ==
    SelectSeq(RemoteContacts, LAMBDA contact : Includes(ToLowerCase(contact.name), ToLowerCase(q)))

\* get('/matters', {params: {q}}): the matters whose number or description
\* contains the query
SearchMatters(q) ==
    SelectSeq(RemoteMatters, LAMBDA matter :
        \/ Includes(ToLowerCase(matter.display_number), ToLowerCase(q))
        \/ Includes(ToLowerCase(matter.description), ToLowerCase(q)))

\* get('/matters/{id}'): the matter, or 404
MatterDetail(id) ==
    IF \E k \in DOMAIN RemoteMatters : RemoteMatters[k].id = id
    THEN Fulfilled(RemoteMatters[CHOOSE k \in DOMAIN RemoteMatters : RemoteMatters[k].id = id])
    ELSE Rejected(NotFoundMessage)

\* the errors a call through the client may be rejected with
CallErrors == {AuthMessage, NotFoundMessage}

ConflictCalls == {"contacts", "matters"}

\* what a call of the conflict check may end with
SearchOutcomes(call, q) ==
    {Fulfilled(IF call = "contacts" THEN SearchContacts(q) ELSE SearchMatters(q))}
        \cup {Rejected(e) : e \in CallErrors}
ListingOutcomes == {Fulfilled(RemoteMatters)} \cup {Rejected(e) : e \in CallErrors}
DetailOutcomes(matter) == {MatterDetail(matter.id)} \cup {Rejected(e) : e \in CallErrors}

\* a remote that holds many matters: matter k of it, without contacts or
\* custom fields, and the first n of them as a page
ListedMatter(k) ==
    [id |-> ToString(k), display_number |-> <<ToString(k)>>, description |-> <<>>,
     status |-> IF k % 7 = 0 THEN "Closed" ELSE "Open", closed_date |-> "",
     contacts |-> <<>>, custom_fields |-> <<>>]
ManyMatters(n) == [k \in 1..n |-> ListedMatter(k)]

\* the page sizes around the two limits
PageSizes == {19, 20, 21, 99, 100}

\* what the matter search and the listing of such a remote may end with
ManySearchOutcomes(call, q) ==
    SearchOutcomes(call, q)
        \cup (IF call = "matters" THEN {Fulfilled(ManyMatters(n)) : n \in PageSizes} ELSE {})
ManyListingOutcomes == ListingOutcomes \cup {Fulfilled(ManyMatters(100))}

\* the direct match of a contact and of a matter
ContactMatch(contact) == [type |-> "contact", id |-> contact.id, name |-> contact.name]
MatterMatch(matter) == [type |-> "matter", id |-> matter.id, name |-> matter.display_number]

\* matter.status === 'Closed' || matter.closed_date
IsClosed(matter) == matter.status = "Closed" \/ matter.closed_date # ""

ClosedMatter(matter) ==
    [matter_id |-> matter.id, matter_number |-> matter.display_number,
     status |-> matter.status, closed_date |-> matter.closed_date]

DirectMatches(contacts, matters) ==
    [k \in DOMAIN contacts |-> ContactMatch(contacts[k])]
        \o [k \in DOMAIN matters |-> MatterMatch(matters[k])]

ClosedMatterHistory(matters) ==
    LET closed == SelectSeq(matters, IsClosed)
    IN [k \in DOMAIN closed |-> ClosedMatter(closed[k])]

\* the search hits, then the matters of the listing that are not among them
MergeMatters(matters, allMatters) ==
    LET existingIds == {matters[k].id : k \in DOMAIN matters}
    IN matters \o SelectSeq(allMatters, LAMBDA m : m.id \notin existingIds)

FirstTwenty_All(list) == list

\* allMattersForCheck.slice(0, 20)
FirstTwenty(list) == SubSeq(list, 1, IF Len(list) < detailLimit THEN Len(list) ELSE detailLimit)

ContactMatches_Exact(contactRel, q) == contactRel.name = q

\* contactName.toLowerCase().includes(searchQuery.toLowerCase())
ContactMatches(contactRel, q) == Includes(ToLowerCase(contactRel.name), ToLowerCase(q))

\* String(field.value || '').toLowerCase().includes(searchQuery.toLowerCase())
FieldMatches(field, q) == Includes(ToLowerCase(field.value), ToLowerCase(q))

RelatedContactMatch(matter, contactRel) ==
    [type |-> "contact", id |-> contactRel.id, name |-> contactRel.name,
     relationship |-> <<IF contactRel.role # "" THEN contactRel.role ELSE "Related Contact">>,
     source_matter_id |-> matter.id, source_matter_number |-> matter.display_number]

RelatedFieldMatch(matter, field) ==
    [type |-> "matter", id |-> matter.id, name |-> matter.display_number,
     relationship |-> <<IF field.name # "" THEN field.name ELSE "Custom Field", ": ", field.value>>,
     source_matter_id |-> matter.id, source_matter_number |-> matter.display_number]

RelatedPartyMatches_FailureListed(matter, outcome, q) ==
    IF outcome.status # "fulfilled"
    THEN <<RelatedFieldMatch(matter, [name |-> "", value |-> <<>>])>>
    ELSE <<>>

\* the matches one candidate matter contributes, given how its detail fetch ended
RelatedPartyMatches(matter, outcome, q) ==
    IF outcome.status # "fulfilled" THEN <<>>
    ELSE LET matterDetail == outcome.data
             contactRels == SelectSeq(matterDetail.contacts,
                                      LAMBDA contactRel : ContactMatches(contactRel, q))
             fields == SelectSeq(matterDetail.custom_fields,
                                 LAMBDA field : FieldMatches(field, q))
         IN [k \in DOMAIN contactRels |-> RelatedContactMatch(matter, contactRels[k])]
                \o [k \in DOMAIN fields |-> RelatedFieldMatch(matter, fields[k])]

ValuesOrder_AsSettled(n, settled) == settled

\* Promise.all resolves with the values in the order of its promises,
\* whatever the order they were settled in
ValuesOrder(n, settled) == [k \in 1..n |-> k]

\* relatedPartyResults.flat()
Flat(candidates, details, q) ==
    Concat([k \in DOMAIN candidates |-> RelatedPartyMatches(candidates[k], details[k], q)])

VARIABLES
    ccPhase,       \* "idle", "searching", "listing", "details" or "done"
    ccQuery,       \* searchQuery
    ccSearch,      \* ccSearch[call]: what the contact and the matter search ended with
    ccListing,     \* what the full matter listing ended with
    ccCandidates,  \* allMattersForCheck.slice(0, 20)
    ccDetails,     \* ccDetails[k]: what the detail fetch of candidate k ended with
    ccIssued,      \* the remote calls issued so far, in order
    ccSettled,     \* the candidates in the order their detail fetches ended
    ccResult       \* what performEthicalConflictCheck ended with

conflictVars ==
    <<ccPhase, ccQuery, ccSearch, ccListing, ccCandidates, ccDetails, ccIssued, ccSettled,
      ccResult>>

Unissued == [status |-> "unissued", data |-> <<>>, error |-> ""]

NoReport ==
    [returned |-> FALSE, threw |-> "", direct_matches |-> <<>>,
     related_party_matches |-> <<>>, closed_matter_history |-> <<>>]

ConflictInit ==
    /\ ccPhase = "idle"
    /\ ccQuery = <<>>
    /\ ccSearch = [call \in ConflictCalls |-> Unissued]
    /\ ccListing = Unissued
    /\ ccCandidates = <<>>
    /\ ccDetails = <<>>
    /\ ccIssued = <<>>
    /\ ccSettled = <<>>
    /\ ccResult = NoReport

\* performEthicalConflictCheck up to the first await: both searches are issued
StartConflictCheck(q) ==
    /\ ccPhase = "idle"
    /\ ccPhase' = "searching"
    /\ ccQuery' = q
    /\ ccSearch' = [call \in ConflictCalls |-> Unsettled]
    /\ ccIssued' = <<"contacts", "matters">>
    /\ UNCHANGED <<ccListing, ccCandidates, ccDetails, ccSettled, ccResult>>

SearchFailed_Never(outcome) == FALSE

\* Promise.all rejects as soon as one of its promises does
SearchFailed(outcome) == outcome.status = "rejected"

\* the detail fetches of the candidates are issued, all before any is awaited
IssueDetails(candidates) ==
    /\ ccCandidates' = FirstTwenty(candidates)
    /\ ccDetails' = [k \in DOMAIN FirstTwenty(candidates) |-> Unsettled]

\* a search ends.  A rejection ends the operation with that error, whatever
\* the other search does; the second success lets the operation go on with
\* the direct matches, the closed matters and then the listing, or the
\* detail fetches right away when the search returned 100 matters.
SearchSettles(call, outcome) ==
    /\ ccSearch[call].status = "pending"
    /\ ccSearch' = [ccSearch EXCEPT ![call] = outcome]
    /\ IF ccPhase # "searching"
       THEN UNCHANGED <<ccPhase, ccListing, ccCandidates, ccDetails, ccIssued, ccResult>>
       ELSE IF SearchFailed(outcome)
       THEN /\ ccPhase' = "done"
            /\ ccResult' = [NoReport EXCEPT !.threw = outcome.error]
            /\ UNCHANGED <<ccListing, ccCandidates, ccDetails, ccIssued>>
       ELSE IF \A other \in ConflictCalls : ccSearch'[other].status = "fulfilled"
       THEN LET contacts == ccSearch'["contacts"].data
                matters == ccSearch'["matters"].data
            IN /\ ccResult' =
                      [NoReport EXCEPT !.direct_matches = DirectMatches(contacts, matters),
                                       !.closed_matter_history = ClosedMatterHistory(matters)]
               /\ IF Len(matters) < searchLimit
                  THEN /\ ccPhase' = "listing"
                       /\ ccListing' = Unsettled
                       /\ ccIssued' = Append(ccIssued, "listing")
                       /\ UNCHANGED <<ccCandidates, ccDetails>>
                  ELSE /\ ccPhase' = "details"
                       /\ IssueDetails(matters)
                       /\ ccIssued' = ccIssued \o [k \in DOMAIN FirstTwenty(matters) |-> "detail"]
                       /\ UNCHANGED ccListing
       ELSE UNCHANGED <<ccPhase, ccListing, ccCandidates, ccDetails, ccIssued, ccResult>>
    /\ UNCHANGED <<ccQuery, ccSettled>>

\* the listing ends: its matters are merged in, or on an error the search
\* hits are used alone; the detail fetches are issued
ListingSettles(outcome) ==
    /\ ccPhase = "listing"
    /\ ccListing.status = "pending"
    /\ ccListing' = outcome
    /\ LET matters == ccSearch["matters"].data
           allMattersForCheck ==
               IF outcome.status = "fulfilled" THEN MergeMatters(matters, outcome.data)
               ELSE matters
       IN /\ IssueDetails(allMattersForCheck)
          /\ ccIssued' = ccIssued \o [k \in DOMAIN FirstTwenty(allMattersForCheck) |-> "detail"]
    /\ ccPhase' = "details"
    /\ UNCHANGED <<ccQuery, ccSearch, ccSettled, ccResult>>

\* the detail fetch of candidate k ends
DetailSettles(k, outcome) ==
    /\ ccPhase = "details"
    /\ k \in DOMAIN ccDetails
    /\ ccDetails[k].status = "pending"
    /\ outcome \in DetailOutcomes(ccCandidates[k])
    /\ ccDetails' = [ccDetails EXCEPT ![k] = outcome]
    /\ ccSettled' = Append(ccSettled, k)
    /\ UNCHANGED <<ccPhase, ccQuery, ccSearch, ccListing, ccCandidates, ccIssued, ccResult>>

\* every detail fetch has ended: the report is returned
FinishConflictCheck ==
    /\ ccPhase = "details"
    /\ \A k \in DOMAIN ccDetails : ccDetails[k].status # "pending"
    /\ ccPhase' = "done"
    /\ LET order == ValuesOrder(Len(ccCandidates), ccSettled)
       IN ccResult' = [ccResult EXCEPT !.returned = TRUE,
                                      !.related_party_matches =
                                          Flat([i \in DOMAIN order |-> ccCandidates[order[i]]],
                                               [i \in DOMAIN order |-> ccDetails[order[i]]],
                                               ccQuery)]
    /\ UNCHANGED <<ccQuery, ccSearch, ccListing, ccCandidates, ccDetails, ccIssued, ccSettled>>

(***************************************************************************)
(* Unbilled Activity Audit (auditUnbilledActivities in                     *)
(* src/lib/tools/matter-intelligence-brief.ts).  A description is the      *)
(* sequence of its characters; an optional number is <<>> when it is       *)
(* absent and <<n>> when it is n; amounts are whole dollars.               *)
(***************************************************************************)
vagueLength == 15
clearLimit == 20

\* the words of the four word patterns, in lower case
VagueWords ==
    {
      <<"m", "e", "e", "t", "i", "n", "g">>, <<"c", "a", "l", "l">>,
      <<"e", "m", "a", "i", "l">>, <<"p", "h", "o", "n", "e">>,
      <<"r", "e", "v", "i", "e", "w">>, <<"w", "o", "r", "k">>, <<"t", "a", "s", "k">>,
      <<"d", "r", "a", "f", "t">>, <<"r", "e", "s", "e", "a", "r", "c", "h">>,
      <<"p", "r", "e", "p">>,
      <<"p", "r", "e", "p", "a", "r", "a", "t", "i", "o", "n">>,
      <<"f", "o", "l", "l", "o", "w", "u", "p">>, <<"m", "t", "g">>,
      <<"m", "t", "n", "g">>, <<"t", "e", "l">>, <<"t", "e", "l", "c", "o", "n">>,
      <<"e", "m", "l">>, <<"e", "m">>, <<"r", "e", "v">>, <<"w", "k">>,
      <<"t", "s", "k">>, <<"d", "r", "f", "t">>, <<"r", "s", "c", "h">>,
      <<"f", "/", "u">>, <<"f", "/", "u", "p">>, <<"s", "e", "e">>,
      <<"s", "e", "e", " ", "a", "b", "o", "v", "e">>, <<"s", "a", "m", "e">>,
      <<"a", "s", " ", "a", "b", "o", "v", "e">>,
      <<"a", "s", " ", "n", "o", "t", "e", "d">>, <<"p", "e", "r">>,
      <<"p", "e", "r", " ", "a", "b", "o", "v", "e">>, <<"m", "i", "s", "c">>,
      <<"m", "i", "s", "c", "e", "l", "l", "a", "n", "e", "o", "u", "s">>,
      <<"o", "t", "h", "e", "r">>, <<"v", "a", "r", "i", "o", "u", "s">>,
      <<"g", "e", "n", "e", "r", "a", "l">>,
      <<"m", "i", "s", "c", "e", "l", "l", "a", "n", "e", "o", "u", "s", " ", "w", "o", "r", "k">>,
      <<"g", "e", "n", "e", "r", "a", "l", " ", "w", "o", "r", "k">>,
      <<"o", "t", "h", "e", "r", " ", "t", "a", "s", "k", "s">> }

\* \w, \s and the characters that are neither
IsWordChar(c) == IsDigit(c) \/ c = "_" \/ LowerChar(c) \in {LowerLetters[k] : k \in 1..26}
IsSpace(c) == c = " "
IsPunctuation(c) == ~IsWordChar(c) /\ ~IsSpace(c)

\* /^follow.?up\s*$/i on a trimmed text
IsFollowUp(text) ==
    /\ Len(text) \in {8, 9}
    /\ ToLowerCase(SubSeq(text, 1, 6)) = <<"f", "o", "l", "l", "o", "w">>
    /\ ToLowerCase(SubSeq(text, Len(text) - 1, Len(text))) = <<"u", "p">>

\* some pattern of vaguePatterns matches the trimmed text
MatchesVaguePattern(text) ==
    \/ ToLowerCase(text) \in VagueWords
    \/ IsFollowUp(text)
    \/ Len(text) = 1 /\ LowerChar(text[1]) \in {LowerLetters[k] : k \in 1..26}
    \/ text # <<>> /\ \A k \in DOMAIN text : IsDigit(text[k])
    \/ text # <<>> /\ \A k \in DOMAIN text : IsPunctuation(text[k])

\* description.trim().length < 15
IsTooShort(text) == Len(Trim(text)) < vagueLength

isVagueDescription(description) ==
    IF description = <<>> \/ Len(Trim(description)) = 0 THEN TRUE
    ELSE IF IsTooShort(description) THEN TRUE
    ELSE MatchesVaguePattern(Trim(description))

RECURSIVE Digits(_)
\* String(n) for a natural number n
Digits(n) == IF n < 10 THEN <<DigitChars[n + 1]>> ELSE Digits(n \div 10) \o <<DigitChars[(n % 10) + 1]>>

\* n.toFixed(2) for a whole number n
ToFixed2(n) == Digits(n) \o <<".", "0", "0">>

EmptyReason == <<"Empty description">>
PatternReason ==
    <<"Matches vague description pattern (e.g., \"meeting\", \"call\", \"review\" without context)">>
TooShortReason(n) ==
    <<"Too short (">> \o Digits(n)
        \o <<" characters). Insurance typically requires at least 15 characters.">>

getVagueReason(description) ==
    IF description = <<>> \/ Len(Trim(description)) = 0 THEN EmptyReason
    ELSE IF Len(Trim(description)) < vagueLength THEN TooShortReason(Len(Trim(description)))
    ELSE PatternReason

\* a JavaScript number that is present and not zero
IsNonZero(x) == x # <<>> /\ x[1] # 0

\* activity.billable_amount || (time_spent && rate ? time_spent * rate : 0) || 0
BillableAmount(activity) ==
    IF IsNonZero(activity.billable_amount) THEN activity.billable_amount[1]
    ELSE IF IsNonZero(activity.time_spent) /\ IsNonZero(activity.rate)
         THEN activity.time_spent[1] * activity.rate[1]
    ELSE 0

\* the descriptions activities come with
Descriptions ==
    {
      <<>>, <<" ", " ", " ">>, <<"C", "a", "l", "l">>,
      <<"M", "e", "e", "t", "i", "n", "g">>,
      <<"f", "o", "l", "l", "o", "w", "-", "u", "p">>, <<"x">>, <<"?", "?", "?">>,
      <<"R", "e", "v", "i", "e", "w", "e", "d", " ", "f", "i", "l", "e">>,
      <<"D", "r", "a", "f", "t", "e", "d", " ", "b", "r", "i", "e", "f", "s">>,
      <<"D", "r", "a", "f", "t", "e", "d", " ", "a", " ", "b", "r", "i", "e", "f">>,
      <<"m", "i", "s", "c", "e", "l", "l", "a", "n", "e", "o", "u", "s", " ", "w", "o", "r", "k">>,
      <<"1", "2", "3", "4", "5", "6", "7", "8", "9", "0", "1", "2", "3", "4", "5", "6">>,
      <<"D", "r", "a", "f", "t", "e", "d", " ", "M", "o", "t", "i", "o", "n", " ", "t", "o", " ", "D", "i", "s", "m", "i", "s", "s">> }

Activity(id, description, date, time_spent, rate, billable_amount) ==
    [id |-> id, description |-> description, date |-> date, time_spent |-> time_spent,
     rate |-> rate, billable_amount |-> billable_amount]

\* how the amount of an activity may be given: an amount; an amount of zero
\* beside time and rate; time and rate only; time only; nothing
AmountShapes ==
    { <<<<>>, <<>>, <<875>>>>, <<<<2>>, <<100>>, <<0>>>>, <<<<2>>, <<150>>, <<>>>>,
      <<<<3>>, <<>>, <<>>>>, <<<<>>, <<>>, <<>>>> }

\* a long list of activities: every tenth one has a vague description
ManyActivities(n) ==
    [k \in 1..n |->
        Activity(ToString(k),
                 IF k % 10 = 0 THEN <<"C", "a", "l", "l">>
                 ELSE <<"D", "r", "a", "f", "t", "e", "d", " ", "a", " ", "b", "r", "i", "e", "f">>,
                 Days[(k % 7) + 1], <<>>, <<>>, <<k * 10>>)]

\* lengths of long lists: 20, 21 and 27 clear descriptions
ListLengths == {22, 23, 30}

\* the activity lists the remote may return: one activity of every kind, the
\* five activities of matter 12345, long lists, and none
ActivityLists ==
    { <<Activity("a1", d, "2024-02-05", s[1], s[2], s[3])>> : d \in Descriptions, s \in AmountShapes }
        \cup { ManyActivities(n) : n \in ListLengths }
        \cup { <<>>,
               << Activity("a1", <<"C", "a", "l", "l">>, "2024-02-02", <<>>, <<>>, <<875>>),
                  Activity("a2", <<>>, "2024-02-06", <<2>>, <<250>>, <<>>),
                  Activity("a3", <<"m", "i", "s", "c", "e", "l", "l", "a", "n", "e", "o", "u", "s",
                                   " ", "w", "o", "r", "k">>, "2024-02-04", <<>>, <<>>, <<375>>),
                  Activity("a4", <<"D", "r", "a", "f", "t", "e", "d", " ", "a", " ", "b", "r", "i",
                                   "e", "f">>, "2024-02-06", <<4>>, <<250>>, <<1000>>),
                  Activity("a5", <<"D", "r", "a", "f", "t", "e", "d", " ", "b", "r", "i", "e", "f",
                                   "s">>, "2024-02-03", <<>>, <<>>, <<125>>) >> }

AuditOutcomes == {Fulfilled(l) : l \in ActivityLists} \cup {Rejected(e) : e \in CallErrors}

UnableToFetchMessage ==
    "Unable to fetch activities. Endpoint may not be available for this matter."

\* the UnbilledActivity made of an activity of the remote
AuditedActivity(activity) ==
    [id |-> activity.id, description |-> activity.description, date |-> activity.date,
     time_spent |-> activity.time_spent, rate |-> activity.rate,
     billable_amount |-> BillableAmount(activity),
     vague_description_flag |-> isVagueDescription(activity.description),
     vague_reason |-> IF isVagueDescription(activity.description)
                      THEN getVagueReason(activity.description) ELSE <<>>]

RECURSIVE Sum(_)
\* auditResult.total_billable_amount after the loop
Sum(amounts) == IF amounts = <<>> THEN 0 ELSE Head(amounts) + Sum(Tail(amounts))

\* new Date(date).getTime(), as the place of the day among the days
DateTime(date) == CHOOSE k \in DOMAIN Days : Days[k] = date

RECURSIVE InsertByDate(_, _)
InsertByDate(a, sorted) ==
    IF sorted = <<>> \/ DateTime(Head(sorted).date) <= DateTime(a.date) THEN <<a>> \o sorted
    ELSE <<Head(sorted)>> \o InsertByDate(a, Tail(sorted))

RECURSIVE SortByDate(_)
\* activities.sort((a, b) => dateB - dateA): most recent first, stable
SortByDate(list) ==
    IF list = <<>> THEN <<>> ELSE InsertByDate(Head(list), SortByDate(Tail(list)))

\* the AuditResult of a list of activities
AuditResult(activities) ==
    LET audited == [k \in DOMAIN activities |-> AuditedActivity(activities[k])]
    IN [total_unbilled_activities |-> Len(activities),
        total_billable_amount |-> Sum([k \in DOMAIN audited |-> audited[k].billable_amount]),
        vague_descriptions_count |->
            Len(SelectSeq(audited, LAMBDA a : a.vague_description_flag)),
        activities |-> SortByDate(audited)]

VagueLines_NoIssue(activity) ==
    << <<"### Activity ", activity.id>>,
       <<"- **Date:** ", activity.date>>,
       <<"- **Description:** \"">> \o activity.description \o <<"\"">>,
       <<>> >>

VagueLines(activity) ==
    << <<"### Activity ", activity.id>>,
       <<"- **Date:** ", activity.date>>,
       <<"- **Description:** \"">> \o activity.description \o <<"\"">>,
       <<"- **Issue:** ">> \o activity.vague_reason >>
        \o (IF IsNonZero(activity.time_spent)
            THEN << <<"- **Time:** ">> \o Digits(activity.time_spent[1]) \o <<" hours">> >>
            ELSE <<>>)
        \o (IF activity.billable_amount # 0
            THEN << <<"- **Amount:** $">> \o ToFixed2(activity.billable_amount) >>
            ELSE <<>>)
        \o << <<>> >>

ClearLine(activity) ==
    <<"- **", activity.date, "** - ">> \o activity.description
        \o (IF activity.billable_amount # 0
            THEN <<" - $">> \o ToFixed2(activity.billable_amount) ELSE <<>>)

\* formatAuditReport(result); the signs before the headings are left out
formatAuditReport(auditResult) ==
    LET vagueActivities == SelectSeq(auditResult.activities, LAMBDA a : a.vague_description_flag)
        clearActivities == SelectSeq(auditResult.activities, LAMBDA a : ~a.vague_description_flag)
        shown == SubSeq(clearActivities, 1,
                        IF Len(clearActivities) < clearLimit THEN Len(clearActivities)
                        ELSE clearLimit)
    IN << <<"# Unbilled Activities Audit">>, <<>>,
          <<"**Total Unbilled Activities:** ">> \o Digits(auditResult.total_unbilled_activities),
          <<"**Total Billable Amount:** $">> \o ToFixed2(auditResult.total_billable_amount),
          <<"**Vague Descriptions:** ">> \o Digits(auditResult.vague_descriptions_count)
              \o <<IF auditResult.vague_descriptions_count > 0 THEN " (Review Required)"
                   ELSE " (All Clear)">>,
          <<>>, <<"---">>, <<>> >>
       \o (IF Len(auditResult.activities) = 0 THEN << <<"*No unbilled activities found.*">> >>
           ELSE (IF Len(vagueActivities) > 0
                 THEN << <<"## Vague Descriptions (">> \o Digits(Len(vagueActivities)) \o <<")">>,
                         <<>>,
                         <<"*These descriptions may be rejected by insurance. Please review and update.*">>,
                         <<>> >>
                      \o Concat([k \in DOMAIN vagueActivities |-> VagueLines(vagueActivities[k])])
                      \o << <<>> >>
                 ELSE <<>>)
             \o (IF Len(clearActivities) > 0
                 THEN << <<"## Clear Descriptions (">> \o Digits(Len(clearActivities)) \o <<")">>,
                         <<>> >>
                      \o [k \in DOMAIN shown |-> ClearLine(shown[k])]
                      \o (IF Len(clearActivities) > clearLimit
                          THEN << <<>>,
                                  <<"*... and ">> \o Digits(Len(clearActivities) - clearLimit)
                                      \o <<" more clear activities*">> >>
                          ELSE <<>>)
                      \o << <<>> >>
                 ELSE <<>>))

VARIABLES
    auPhase,     \* "idle", "primary", "fallback" or "done"
    auCalls,     \* the endpoints called so far, in order
    auPrimary,   \* what the call of the activities endpoint ended with
    auFallback,  \* what the call of the time_entries endpoint ended with
    audit        \* what auditUnbilledActivities ended with

auditVars == <<auPhase, auCalls, auPrimary, auFallback, audit>>

NoAudit == [returned |-> FALSE, threw |-> "", result |-> AuditResult(<<>>), report |-> <<>>]

AuditInit ==
    /\ auPhase = "idle"
    /\ auCalls = <<>>
    /\ auPrimary = Unissued
    /\ auFallback = Unissued
    /\ audit = NoAudit

\* the report of a list of activities is returned
ReturnAudit(activities) ==
    audit' = [returned |-> TRUE, threw |-> "", result |-> AuditResult(activities),
              report |-> formatAuditReport(AuditResult(activities))]

\* auditUnbilledActivities up to the first await: the activities endpoint is called
StartAudit ==
    /\ auPhase = "idle"
    /\ auPhase' = "primary"
    /\ auCalls' = <<"activities">>
    /\ auPrimary' = Unsettled
    /\ UNCHANGED <<auFallback, audit>>

NeedsFallback_Always(outcome) == TRUE

\* the catch around the call of the activities endpoint is entered
NeedsFallback(outcome) == outcome.status = "rejected"

\* the call of the activities endpoint ends: with the activities the report is
\* made, on any error the time_entries endpoint is called
PrimarySettles(outcome) ==
    /\ auPhase = "primary"
    /\ auPrimary' = outcome
    /\ IF ~NeedsFallback(outcome)
       THEN /\ auPhase' = "done"
            /\ ReturnAudit(outcome.data)
            /\ UNCHANGED <<auCalls, auFallback>>
       ELSE /\ auPhase' = "fallback"
            /\ auCalls' = Append(auCalls, "time_entries")
            /\ auFallback' = Unsettled
            /\ UNCHANGED audit

\* the call of the time_entries endpoint ends
FallbackSettles(outcome) ==
    /\ auPhase = "fallback"
    /\ auFallback' = outcome
    /\ auPhase' = "done"
    /\ IF outcome.status = "fulfilled"
       THEN ReturnAudit(outcome.data)
       ELSE audit' = [NoAudit EXCEPT !.threw = UnableToFetchMessage]
    /\ UNCHANGED <<auCalls, auPrimary>>

(***************************************************************************)
(* PII redaction (redactPII of the safe-logging utilities).  A text is     *)
(* the sequence of its characters.  A position is the index of the next    *)
(* character to read; a pattern read from position p gives the position    *)
(* after what it matched, or 0 when it does not match.  The only white     *)
(* space of the texts is the blank.                                        *)
(***************************************************************************)
\* the character at index k is a word character
WordAt(text, k) == k \in 1..Len(text) /\ IsWordChar(text[k])

\* \b between the characters at k and k + 1
Boundary(text, k) == WordAt(text, k) # WordAt(text, k + 1)

\* \d{n}
DigitsAt(text, p, n) ==
    IF p # 0 /\ p + n - 1 <= Len(text) /\ \A j \in p..(p + n - 1) : IsDigit(text[j])
    THEN p + n ELSE 0

\* [class]? before something no character of the class can start
Opt(text, p, Class(_)) ==
    IF p = 0 THEN 0 ELSE IF p <= Len(text) /\ Class(text[p]) THEN p + 1 ELSE p

\* one given character
Lit(text, p, c) == IF p # 0 /\ p <= Len(text) /\ text[p] = c THEN p + 1 ELSE 0

\* a given word, whatever the case of its letters
WordIgnoringCase(text, p, word) ==
    IF p # 0 /\ p + Len(word) - 1 <= Len(text)
         /\ ToLowerCase(SubSeq(text, p, p + Len(word) - 1)) = ToLowerCase(word)
    THEN p + Len(word) ELSE 0

\* [class]*: the position after the longest run of the class from p
Run(text, p, Class(_)) ==
    IF p = 0 THEN 0
    ELSE 1 + CHOOSE q \in (p - 1)..Len(text) :
                 /\ \A j \in p..q : Class(text[j])
                 /\ q = Len(text) \/ ~Class(text[q + 1])

\* \b at the end of what was matched
AtBoundary(text, p) == IF p # 0 /\ Boundary(text, p - 1) THEN p ELSE 0

IsDashDot(c) == c \in {"-", "."}
IsDashDotSpace(c) == c \in {"-", "."} \/ IsSpace(c)
IsSpaceDash(c) == c = "-" \/ IsSpace(c)
IsOpen(c) == c = "("
IsClose(c) == c = ")"
IsPlus(c) == c = "+"
IsLetter(c) == \E k \in 1..26 : LowerLetters[k] = LowerChar(c)
IsNotQuote(c) == c # "\""
\* [A-Za-z0-9._%+-], [A-Za-z0-9.-] and [A-Z|a-z]
IsLocalChar(c) == IsLetter(c) \/ IsDigit(c) \/ c \in {".", "_", "%", "+", "-"}
IsDomainChar(c) == IsLetter(c) \/ IsDigit(c) \/ c \in {".", "-"}
IsTopLevelChar(c) == IsLetter(c) \/ c = "|"
\* [A-Za-z0-9\s]
IsAddressChar(c) == IsLetter(c) \/ IsDigit(c) \/ IsSpace(c)

\* /\b[A-Za-z0-9._%+-]+@[A-Za-z0-9.-]+\.[A-Z|a-z]{2,}\b/gi
EmailEnd(text, i) ==
    LET at == Run(text, i, IsLocalChar)
        r == Run(text, Lit(text, at, "@"), IsDomainChar)
        \* the dot before the top-level part at q, the part ending before e
        Fits(q, e) ==
            /\ text[q] = "."
            /\ e - q - 1 >= 2
            /\ \A j \in (q + 1)..(e - 1) : IsTopLevelChar(text[j])
            /\ Boundary(text, e - 1)
        dots == {q \in (at + 2)..(r - 1) : \E e \in (q + 3)..(Len(text) + 1) : Fits(q, e)}
    IN IF Boundary(text, i - 1) /\ at > i /\ r # 0 /\ dots # {}
       THEN LET q == CHOOSE q \in dots : \A other \in dots : other <= q
            IN CHOOSE e \in (q + 3)..(Len(text) + 1) :
                   Fits(q, e) /\ \A other \in (q + 3)..(Len(text) + 1) : Fits(q, other) => other <= e
       ELSE 0

\* /\b\d{3}[-.]?\d{3}[-.]?\d{4}\b/g
Phone1End(text, i) ==
    IF ~Boundary(text, i - 1) THEN 0
    ELSE AtBoundary(text,
             DigitsAt(text, Opt(text, DigitsAt(text, Opt(text, DigitsAt(text, i, 3), IsDashDot), 3),
                                IsDashDot), 4))

\* /\b\(\d{3}\)\s?\d{3}[-.]?\d{4}\b/g
Phone2End(text, i) ==
    IF ~Boundary(text, i - 1) THEN 0
    ELSE AtBoundary(text,
             DigitsAt(text,
                 Opt(text, DigitsAt(text, Opt(text, Lit(text, DigitsAt(text, Lit(text, i, "("), 3), ")"),
                                              IsSpace), 3),
                     IsDashDot), 4))

\* [-.\s]?\(?\d{3}\)?[-.\s]?\d{3}[-.\s]?\d{4}\b
Phone3Rest(text, p) ==
    AtBoundary(text,
        DigitsAt(text,
            Opt(text,
                DigitsAt(text,
                    Opt(text, Opt(text, DigitsAt(text, Opt(text, Opt(text, p, IsDashDotSpace), IsOpen), 3),
                                  IsClose),
                        IsDashDotSpace), 3),
                IsDashDotSpace), 4))

\* /\b\+?\d{1,3}[-.\s]?\(?\d{3}\)?[-.\s]?\d{3}[-.\s]?\d{4}\b/g: three leading
\* digits are tried first, then two, then one
Phone3End(text, i) ==
    LET p == Opt(text, i, IsPlus)
        Try(n) == Phone3Rest(text, DigitsAt(text, p, n))
    IN IF ~Boundary(text, i - 1) THEN 0
       ELSE IF Try(3) # 0 THEN Try(3) ELSE IF Try(2) # 0 THEN Try(2) ELSE Try(1)

\* /\b\d{3}-\d{2}-\d{4}\b/g
Ssn1End(text, i) ==
    IF ~Boundary(text, i - 1) THEN 0
    ELSE AtBoundary(text,
             DigitsAt(text, Lit(text, DigitsAt(text, Lit(text, DigitsAt(text, i, 3), "-"), 2), "-"), 4))

\* /\b\d{9}\b/g
Ssn2End(text, i) == IF ~Boundary(text, i - 1) THEN 0 ELSE AtBoundary(text, DigitsAt(text, i, 9))

\* /^(?!000|666|9)\d{3}/.test(match)
LooksLikeSsn(match) ==
    /\ SubSeq(match, 1, 3) # <<"0", "0", "0">>
    /\ SubSeq(match, 1, 3) # <<"6", "6", "6">>
    /\ match[1] # "9"

\* /\b\d{4}[\s-]?\d{4}[\s-]?\d{4}[\s-]?\d{4}\b/g
Card1End(text, i) ==
    IF ~Boundary(text, i - 1) THEN 0
    ELSE AtBoundary(text,
             DigitsAt(text,
                 Opt(text,
                     DigitsAt(text, Opt(text, DigitsAt(text, Opt(text, DigitsAt(text, i, 4), IsSpaceDash), 4),
                                        IsSpaceDash), 4),
                     IsSpaceDash), 4))

\* /\b\d{13,19}\b/g
Card2End(text, i) ==
    LET e == Run(text, i, IsDigit)
    IN IF Boundary(text, i - 1) /\ e - i >= 13 /\ e - i <= 19 THEN AtBoundary(text, e) ELSE 0

NamePrefixes ==
    <<<<"f", "i", "r", "s", "t">>, <<"l", "a", "s", "t">>, <<"f", "u", "l", "l">>,
      <<"g", "i", "v", "e", "n">>, <<"f", "a", "m", "i", "l", "y">>, <<"m", "i", "d", "d", "l", "e">>>>

\* /"(?:first|last|full|given|family|middle)?name"\s*:\s*"[^"]+"/gi
NameEnd(text, i) ==
    LET q == Lit(text, i, "\"")
        prefixed == {k \in DOMAIN NamePrefixes : WordIgnoringCase(text, q, NamePrefixes[k]) # 0}
        p == IF prefixed # {}
                  /\ WordIgnoringCase(text, WordIgnoringCase(text, q,
                         NamePrefixes[CHOOSE k \in prefixed : TRUE]), <<"n", "a", "m", "e">>) # 0
             THEN WordIgnoringCase(text, q, NamePrefixes[CHOOSE k \in prefixed : TRUE])
             ELSE q
        key == Lit(text, WordIgnoringCase(text, p, <<"n", "a", "m", "e">>), "\"")
        value == Lit(text, Run(text, Lit(text, Run(text, key, IsSpace), ":"), IsSpace), "\"")
        e == Run(text, value, IsNotQuote)
    IN IF e > value THEN Lit(text, e, "\"") ELSE 0

StreetWords ==
    {
      <<"S", "t", "r", "e", "e", "t">>, <<"S", "t">>, <<"A", "v", "e", "n", "u", "e">>,
      <<"A", "v", "e">>, <<"R", "o", "a", "d">>, <<"R", "d">>,
      <<"D", "r", "i", "v", "e">>, <<"D", "r">>, <<"L", "a", "n", "e">>, <<"L", "n">>,
      <<"B", "o", "u", "l", "e", "v", "a", "r", "d">>, <<"B", "l", "v", "d">>,
      <<"C", "o", "u", "r", "t">>, <<"C", "t">>, <<"P", "l", "a", "c", "e">>, <<"P", "l">> }

\* /\b\d+\s+[A-Za-z0-9\s]+(?:Street|St|...|Pl)[^"]*/gi: a number, blanks,
\* at least one more letter, digit or blank, a street word, and whatever
\* follows up to the next double quote
AddressEnd(text, i) ==
    LET d == Run(text, i, IsDigit)
        r == Run(text, d, IsAddressChar)
    IN IF /\ Boundary(text, i - 1)
          /\ d > i
          /\ d <= Len(text) /\ IsSpace(text[d])
          /\ \E p \in (d + 2)..(r - 1) : \E w \in StreetWords :
                 WordIgnoringCase(text, p, w) # 0
       THEN Run(text, r, IsNotQuote)
       ELSE 0

\* the ten replacements of redactPII, in the order they are made
Rules ==
    <<"email", "phone1", "phone2", "phone3", "ssn1", "ssn2", "card1", "card2", "name", "address">>

\* where the match of a rule that starts at i ends
MatchEnd(rule, text, i) ==
    CASE rule = "email" -> EmailEnd(text, i)
      [] rule = "phone1" -> Phone1End(text, i)
      [] rule = "phone2" -> Phone2End(text, i)
      [] rule = "phone3" -> Phone3End(text, i)
      [] rule = "ssn1" -> Ssn1End(text, i)
      [] rule = "ssn2" -> Ssn2End(text, i)
      [] rule = "card1" -> Card1End(text, i)
      [] rule = "card2" -> Card2End(text, i)
      [] rule = "name" -> NameEnd(text, i)
      [] rule = "address" -> AddressEnd(text, i)

EmailRedacted ==
    <<"[", "E", "M", "A", "I", "L", "_", "R", "E", "D", "A", "C", "T", "E", "D", "]">>
PhoneRedacted ==
    <<"[", "P", "H", "O", "N", "E", "_", "R", "E", "D", "A", "C", "T", "E", "D", "]">>
SsnRedacted ==
    <<"[", "S", "S", "N", "_", "R", "E", "D", "A", "C", "T", "E", "D", "]">>
CardRedacted ==
    <<"[", "C", "A", "R", "D", "_", "R", "E", "D", "A", "C", "T", "E", "D", "]">>
AddressRedacted ==
    <<"[", "A", "D", "D", "R", "E", "S", "S", "_", "R", "E", "D", "A", "C", "T", "E", "D", "]">>
\* the replacement text of the name rule; $1 names no group and stays as it is
NameRedacted ==
    <<"\"", "$", "1", "n", "a", "m", "e", "\"", ":", " ", "\"", "[", "N", "A", "M", "E",
    "_", "R", "E", "D", "A", "C", "T", "E", "D", "]", "\"">>

\* what the match of a rule is replaced with
Replacement(rule, match) ==
    CASE rule = "email" -> EmailRedacted
      [] rule \in {"phone1", "phone2", "phone3"} -> PhoneRedacted
      [] rule = "ssn1" -> SsnRedacted
      [] rule = "ssn2" -> IF LooksLikeSsn(match) THEN SsnRedacted ELSE match
      [] rule \in {"card1", "card2"} -> CardRedacted
      [] rule = "name" -> NameRedacted
      [] rule = "address" -> AddressRedacted

RECURSIVE ReplaceFrom(_, _, _)
\* text.replace(pattern, replacement) with the g flag, from position i on:
\* the leftmost match is replaced and the search goes on after it
ReplaceFrom(rule, text, i) ==
    IF i > Len(text) THEN <<>>
    ELSE LET e == MatchEnd(rule, text, i)
         IN IF e # 0
            THEN Replacement(rule, SubSeq(text, i, e - 1)) \o ReplaceFrom(rule, text, e)
            ELSE <<text[i]>> \o ReplaceFrom(rule, text, i + 1)

RECURSIVE RedactedBy(_, _)
\* the text after the first k replacements
RedactedBy(k, text) ==
    IF k = 0 THEN text ELSE ReplaceFrom(Rules[k], RedactedBy(k - 1, text), 1)

redactPII(text) == IF text = <<>> THEN text ELSE RedactedBy(Len(Rules), text)

\* pieces of text: an e-mail address, phone numbers, social security numbers,
\* card numbers, name fields, a street address, and text that is none of these
TextPieces ==
    {
      <<"j", "a", "n", "e", "@", "e", "x", "a", "m", "p", "l", "e", ".", "c", "o", "m">>,
      <<"5", "5", "5", "-", "1", "2", "3", "-", "4", "5", "6", "7">>,
      <<"(", "5", "5", "5", ")", " ", "1", "2", "3", "-", "4", "5", "6", "7">>,
      <<"+", "1", " ", "5", "5", "5", " ", "1", "2", "3", " ", "4", "5", "6", "7">>,
      <<"1", "2", "3", "-", "4", "5", "-", "6", "7", "8", "9">>,
      <<"1", "2", "3", "4", "5", "6", "7", "8", "9">>,
      <<"0", "0", "0", "1", "2", "3", "4", "5", "6">>,
      <<"4", "1", "1", "1", " ", "1", "1", "1", "1", " ", "1", "1", "1", "1", " ", "1", "1", "1", "1">>,
      <<"4", "1", "1", "1", "1", "1", "1", "1", "1", "1", "1", "1", "1", "1", "1", "1">>,
      <<"\"", "n", "a", "m", "e", "\"", ":", " ", "\"", "B", "o", "b", "\"">>,
      <<"n", "a", "m", "e", "\"", ":", " ", "\"", "A", "l", "\"">>,
      <<"1", "2", " ", "M", "a", "i", "n", " ", "S", "t">>,
      <<"c", "a", "l", "l">>,
      <<" ">>,
      <<"x">> }

\* the texts that are redacted: a piece, or two pieces one after the other
InputTexts == TextPieces \cup {a \o b : a, b \in TextPieces}

VARIABLES
    redactInput,    \* the text given to redactPII
    redactOutputs   \* what redactPII returned for it, and for each result in turn

redactVars == <<redactInput, redactOutputs>>

RedactInit ==
    /\ redactInput = <<>>
    /\ redactOutputs = <<>>

\* redactPII is called with the text, or with what the last call returned
Redact ==
    /\ Len(redactOutputs) < MaxPasses
    /\ redactOutputs' =
           Append(redactOutputs,
                  redactPII(IF redactOutputs = <<>> THEN redactInput
                            ELSE redactOutputs[Len(redactOutputs)]))
    /\ UNCHANGED redactInput

(***************************************************************************)
(* The client instance under a fan-out: its rate-limit estimate and its    *)
(* log (the interceptors of src/lib/clio-client-production.ts and safeLog).*)
(* Several calls of one instance may be in flight.  The clock ciNow counts *)
(* milliseconds; how long a sleep before a retry lasts is the matter of    *)
(* the retry policy above, here the sleep ends at some later step.  A      *)
(* logged object is the sequence of its fields.                            *)
(***************************************************************************)
defaultRemaining == 1000
defaultResetDelay == 60000

UpperChar(c) ==
    IF \E k \in 1..26 : LowerLetters[k] = c
    THEN UpperLetters[CHOOSE k \in 1..26 : LowerLetters[k] = c]
    ELSE c
\* String.prototype.toUpperCase, character by character
ToUpperCase(text) == [k \in DOMAIN text |-> UpperChar(text[k])]

\* a number inside a template literal
NumText(x) == IF x.nan THEN <<"N", "a", "N">> ELSE Digits(x.val)

Blank == <<" ">>
Ms == <<"m", "s">>
UndefinedText == <<"u", "n", "d", "e", "f", "i", "n", "e", "d">>

\* a field of an object: its key and a string or a number
StringField(key, text) == [key |-> key, kind |-> "string", value |-> text]
NumberField(key, x) == [key |-> key, kind |-> "number", value |-> NumText(x)]

\* the characters of a string as JSON.stringify quotes them
Escaped(text) ==
    IF text = <<>> THEN <<>>
    ELSE Concat([k \in DOMAIN text |->
                    IF text[k] \in {"\"", "\\"} THEN <<"\\", text[k]>> ELSE <<text[k]>>])

JsonField(f) ==
    <<"\"">> \o Escaped(f.key) \o <<"\"", ":">>
        \o (IF f.kind = "string" THEN <<"\"">> \o Escaped(f.value) \o <<"\"">> ELSE f.value)

\* JSON.stringify of an object of strings and numbers
Stringify(fields) ==
    <<"{">>
        \o Concat([k \in DOMAIN fields |->
                      (IF k = 1 THEN <<>> ELSE <<",">>) \o JsonField(fields[k])])
        \o <<"}">>

\* the calls of one fan-out: the two searches of a conflict check
InstanceCalls == {"contacts", "matters"}

\* what is searched for: a name, an e-mail address
LoggedQueries == {<<"j", "a", "n", "e">>, <<"j", "a", "n", "e", "@", "e", "x", "a", "m",
    "p", "l", "e", ".", "c", "o", "m">>}

Method == <<"g", "e", "t">>
Url(call) == IF call = "contacts" THEN <<"/", "c", "o", "n", "t", "a", "c", "t",
    "s">> ELSE <<"/", "m", "a", "t", "t", "e", "r", "s">>
Params(q) == <<StringField(<<"q">>, q), NumberField(<<"l", "i", "m", "i", "t">>,
    Num(searchLimit))>>

\* how an attempt ends on this instance: a response with or without the
\* rate-limit headers, or no response at all
Answer(status, statusText, retryAfter, remaining, reset) ==
    [kind |-> "response", status |-> status, statusText |-> statusText,
     retryAfter |-> retryAfter, remaining |-> remaining, reset |-> reset]
NoAnswer ==
    [kind |-> "network", status |-> 0, statusText |-> UndefinedText,
     retryAfter |-> Absent, remaining |-> Absent, reset |-> Absent]
InstanceOutcomes ==
    { Answer(200, <<"O", "K">>, Absent, Header(<<"4", "2">>), Header(<<"1", "7", "0",
        "0">>)),
      Answer(200, <<"O", "K">>, Absent, Absent, Absent),
      Answer(401, <<"U", "n", "a", "u", "t", "h", "o", "r", "i", "z", "e", "d">>, Absent,
          Absent, Absent),
      Answer(429, <<"T", "o", "o", " ", "M", "a", "n", "y", " ", "R", "e", "q", "u", "e",
          "s", "t", "s">>, Header(<<"2">>), Header(<<"0">>), Header(<<"1", "7", "0",
          "0">>)),
      Answer(500, <<"I", "n", "t", "e", "r", "n", "a", "l", " ", "S", "e", "r", "v", "e",
          "r", " ", "E", "r", "r", "o", "r">>, Absent, Absent, Absent),
      NoAnswer }

RequestPrefix == <<"[", "C", "l", "i", "o", "C", "l", "i", "e", "n", "t", "]", " ", "R",
    "e", "q", "u", "e", "s", "t", ":", " ">>
ResponsePrefix == <<"[", "C", "l", "i", "o", "C", "l", "i", "e", "n", "t", "]", " ", "R",
    "e", "s", "p", "o", "n", "s", "e", ":", " ">>
ErrorPrefix == <<"[", "C", "l", "i", "o", "C", "l", "i", "e", "n", "t", "]", " ", "E",
    "r", "r", "o", "r", ":", " ">>
UnauthorizedText == <<"[", "C", "l", "i", "o", "C", "l", "i", "e", "n", "t", "]", " ",
    "4", "0", "1", " ", "U", "n", "a", "u", "t", "h", "o", "r", "i", "z", "e", "d", " ",
    "-", " ", "T", "o", "k", "e", "n", " ", "m", "a", "y", " ", "b", "e", " ", "e", "x",
    "p", "i", "r", "e", "d", " ", "o", "r", " ", "i", "n", "v", "a", "l", "i", "d">>
RateLimitedPrefix == <<"[", "C", "l", "i", "o", "C", "l", "i", "e", "n", "t", "]", " ",
    "R", "a", "t", "e", " ", "l", "i", "m", "i", "t", "e", "d", ".", " ", "R", "e", "t",
    "r", "y", "i", "n", "g", " ", "a", "f", "t", "e", "r", " ">>
ServerErrorPrefix == <<"[", "C", "l", "i", "o", "C", "l", "i", "e", "n", "t", "]", " ",
    "S", "e", "r", "v", "e", "r", " ", "e", "r", "r", "o", "r", " ">>
RetryingSuffix == <<".", " ", "R", "e", "t", "r", "y", "i", "n", "g">>

KeyParams == <<"p", "a", "r", "a", "m", "s">>
KeyDuration == <<"d", "u", "r", "a", "t", "i", "o", "n">>
KeyRateLimitRemaining == <<"r", "a", "t", "e", "L", "i", "m", "i", "t", "R", "e", "m",
    "a", "i", "n", "i", "n", "g">>
KeyUrl == <<"u", "r", "l">>
KeyRetryCount == <<"r", "e", "t", "r", "y", "C", "o", "u", "n", "t">>
KeyAttempt == <<"a", "t", "t", "e", "m", "p", "t">>
KeyMaxRetries == <<"m", "a", "x", "R", "e", "t", "r", "i", "e", "s">>
KeyWaitTime == <<"w", "a", "i", "t", "T", "i", "m", "e">>

\* `${duration}ms` with Date.now() - config.__startTime
DurationText(d) == Digits(d) \o Ms
\* error.response?.status and statusText inside a template literal
StatusText(o) == IF o.kind = "response" THEN Digits(o.status) ELSE UndefinedText

RequestMessage(redactedUrl) == RequestPrefix \o ToUpperCase(Method) \o Blank \o redactedUrl
ResponseMessage(o, redactedUrl) == ResponsePrefix \o Digits(o.status) \o Blank \o redactedUrl
ErrorMessage(o) == ErrorPrefix \o StatusText(o) \o Blank \o o.statusText
RateLimitedMessage(w) == RateLimitedPrefix \o NumText(w) \o Ms
ServerErrorMessage(o) == ServerErrorPrefix \o Digits(o.status) \o RetryingSuffix

\* the waits this instance can sleep before a retry
InstanceWaits ==
    {calculateBackoffDelay(rc) : rc \in 0..(maxRetries - 1)}
        \cup {RateLimitWait(o, rc) : o \in InstanceOutcomes, rc \in 0..(maxRetries - 1)}

\* the texts this instance hands to redactPII, itself or through safeLog
LoggedTexts ==
    LET urls == {Url(call) : call \in InstanceCalls}
        params == {Stringify(Params(q)) : q \in LoggedQueries}
        redacted == {redactPII(t) : t \in urls \cup params}
        redactedUrls == {redactPII(u) : u \in urls}
    IN urls \cup params \cup redacted
         \cup {DurationText(250 * k) : k \in 0..MaxInstanceTicks}
         \cup {NumText(w) \o Ms : w \in InstanceWaits}
         \cup {RequestMessage(u) : u \in redactedUrls}
         \cup {ResponseMessage(o, u) : o \in InstanceOutcomes, u \in redactedUrls}
         \cup {ErrorMessage(o) : o \in InstanceOutcomes}
         \cup {UnauthorizedText}
         \cup {RateLimitedMessage(w) : w \in InstanceWaits}
         \cup {ServerErrorMessage(o) : o \in InstanceOutcomes}

\* redactPII on those texts
Redactions == {<<t, redactPII(t)>> : t \in LoggedTexts}

VARIABLES
    ciRedactions,    \* redactPII on the texts of the log, worked out once
    ciNow,           \* Date.now()
    ciTicks,         \* how often the clock has advanced
    ciQuery,         \* what the fan-out searches for
    rateLimitState,  \* this.rateLimitState
    ciCalls,         \* per call: its phase, config.__retryCount, config.__startTime, result
    ciReceived,      \* how many responses the instance has received
    ciLast,          \* the response received last, and for which call
    ciLog            \* the records the last step sent to the console, in order

instanceVars == <<ciRedactions, ciNow, ciTicks, ciQuery, rateLimitState, ciCalls, ciReceived, ciLast,
                  ciLog>>

\* redactPII(text)
Redacted(text) == (CHOOSE p \in ciRedactions : p[1] = text)[2]

safeKeys ==
    {<<"i", "d">>, <<"t", "y", "p", "e">>, <<"s", "t", "a", "t", "u", "s">>, <<"c", "r",
        "e", "a", "t", "e", "d", "_", "a", "t">>, <<"u", "p", "d", "a", "t", "e", "d",
        "_", "a", "t">>, <<"m", "e", "t", "a">>, <<"p", "a", "g", "i", "n", "g">>}

\* no object is logged
NoData == <<>>

\* redactPIIFromObject of an object of strings and numbers
redactPIIFromObject(data) ==
    [k \in DOMAIN data |->
        IF ToLowerCase(data[k].key) \in safeKeys THEN data[k]
        ELSE IF data[k].kind = "string" THEN [data[k] EXCEPT !.value = Redacted(@)]
        ELSE data[k]]

\* safeLog(level, message, data): the record that reaches the console
safeLog(level, message, data) ==
    [level |-> level, message |-> Redacted(message), data |-> redactPIIFromObject(data)]

NotCalled == [phase |-> "unissued", retryCount |-> 0, startTime |-> 0, result |-> Pending]
NothingReceived == [call |-> "", outcome |-> NoAnswer]

\* new ClioClient(token)
InstanceInit ==
    /\ ciRedactions = {}
    /\ ciNow = 1000
    /\ ciTicks = 0
    /\ ciQuery = <<>>
    /\ rateLimitState = [remaining |-> Num(defaultRemaining),
                         resetAt |-> Num(1000 + defaultResetDelay)]
    /\ ciCalls = [call \in InstanceCalls |-> NotCalled]
    /\ ciReceived = 0
    /\ ciLast = NothingReceived
    /\ ciLog = <<>>

\* the clock advances while a call is under way
InstanceTick ==
    /\ ciTicks < MaxInstanceTicks
    /\ \E call \in InstanceCalls : ciCalls[call].phase \in {"inflight", "sleeping"}
    /\ ciNow' = ciNow + 250
    /\ ciTicks' = ciTicks + 1
    /\ UNCHANGED <<ciRedactions, ciQuery, rateLimitState, ciCalls, ciReceived, ciLast, ciLog>>

\* what the request interceptor logs for a call
RequestLog(call) ==
    LET params == Redacted(Stringify(Params(ciQuery)))
    IN safeLog("info", RequestMessage(Redacted(Url(call))),
               IF params # <<>> THEN <<StringField(KeyParams, params)>> ELSE NoData)

\* get(url, {params}): the request interceptor stamps and logs the request
IssueRequest(call) ==
    /\ ciCalls[call].phase = "unissued"
    /\ ciCalls' = [ciCalls EXCEPT ![call] =
                      [phase |-> "inflight", retryCount |-> 0, startTime |-> ciNow,
                       result |-> Pending]]
    /\ ciLog' = <<RequestLog(call)>>
    /\ UNCHANGED <<ciRedactions, ciNow, ciTicks, ciQuery, rateLimitState, ciReceived, ciLast>>

\* config.__startTime ? Date.now() - config.__startTime : 0
Duration(call) == IF ciCalls[call].startTime # 0 THEN ciNow - ciCalls[call].startTime ELSE 0

\* the rate-limit state after the success handler has read the headers
HeadersRead(o) ==
    [remaining |-> IF o.remaining.present THEN ParseInt(o.remaining.value)
                   ELSE rateLimitState.remaining,
     resetAt |-> IF o.reset.present THEN Times(ParseInt(o.reset.value), 1000)
                 ELSE rateLimitState.resetAt]

\* the response interceptor's success handler
InstanceOnResponse(call, o) ==
    /\ rateLimitState' = HeadersRead(o)
    /\ ciLog' = <<safeLog("info", ResponseMessage(o, Redacted(Url(call))),
                          <<StringField(KeyDuration, DurationText(Duration(call))),
                            NumberField(KeyRateLimitRemaining, HeadersRead(o).remaining)>>)>>
    /\ ciCalls' = [ciCalls EXCEPT ![call].phase = "done", ![call].result = Resolved(o)]

\* what the error handler logs first
ErrorLog(call, o) ==
    safeLog("error", ErrorMessage(o),
            <<StringField(KeyUrl, Redacted(Url(call))),
              StringField(KeyDuration, DurationText(Duration(call))),
              NumberField(KeyRetryCount, Num(ciCalls[call].retryCount))>>)

RetryFields(call) ==
    <<NumberField(KeyAttempt, Num(ciCalls[call].retryCount + 1)),
      NumberField(KeyMaxRetries, Num(maxRetries))>>

\* the response interceptor's error handler, up to its first await or return
InstanceOnError(call, o) ==
    LET rc == ciCalls[call].retryCount
        rejected(r) == [ciCalls EXCEPT ![call].phase = "done", ![call].result = r]
        sleeping == [ciCalls EXCEPT ![call].phase = "sleeping"]
    IN /\ rateLimitState' = rateLimitState
       /\ IF Is401(o)
          THEN /\ ciLog' = <<ErrorLog(call, o), safeLog("error", UnauthorizedText, NoData)>>
               /\ ciCalls' = rejected(PlainError(AuthMessage))
          ELSE IF Is429(o)
          THEN IF ShouldRetry(rc)
               THEN /\ ciLog' = <<ErrorLog(call, o),
                                  safeLog("warn", RateLimitedMessage(RateLimitWait(o, rc)),
                                          RetryFields(call))>>
                    /\ ciCalls' = sleeping
               ELSE /\ ciLog' = <<ErrorLog(call, o)>>
                    /\ ciCalls' = rejected(PlainError(RateLimitMessage))
          ELSE IF IsServerError(o) /\ ShouldRetry(rc)
          THEN /\ ciLog' = <<ErrorLog(call, o),
                             safeLog("warn", ServerErrorMessage(o),
                                     <<StringField(KeyWaitTime,
                                                   NumText(calculateBackoffDelay(rc)) \o Ms)>>
                                         \o RetryFields(call))>>
               /\ ciCalls' = sleeping
          ELSE /\ ciLog' = <<ErrorLog(call, o)>>
               /\ ciCalls' = rejected(AxiosError(o))

\* the attempt of a call ends: validateStatus hands a 2xx to the success
\* handler and everything else to the error handler
Receive(call, o) ==
    /\ ciCalls[call].phase = "inflight"
    /\ ciReceived' = IF o.kind = "response" THEN ciReceived + 1 ELSE ciReceived
    /\ ciLast' = IF o.kind = "response" THEN [call |-> call, outcome |-> o] ELSE ciLast
    /\ IF o.kind = "response" /\ o.status = 200
       THEN InstanceOnResponse(call, o)
       ELSE InstanceOnError(call, o)
    /\ UNCHANGED <<ciRedactions, ciNow, ciTicks, ciQuery>>

\* the sleep is over: config.__retryCount = retryCount + 1, and
\* this.axiosInstance.request(config) passes the request interceptor again
RetryRequest(call) ==
    /\ ciCalls[call].phase = "sleeping"
    /\ ciCalls' = [ciCalls EXCEPT ![call].phase = "inflight",
                                  ![call].retryCount = @ + 1,
                                  ![call].startTime = ciNow]
    /\ ciLog' = <<RequestLog(call)>>
    /\ UNCHANGED <<ciRedactions, ciNow, ciTicks, ciQuery, rateLimitState, ciReceived, ciLast>>

(***************************************************************************)
(* The engines together.                                                   *)
(***************************************************************************)
engineVars == <<briefVars, conflictVars, auditVars, redactVars, instanceVars>>

EnginesInit == BriefInit /\ ConflictInit /\ AuditInit /\ RedactInit /\ InstanceInit

(***************************************************************************)
(* The invocation endpoint (src/app/api/mcp/sse/route.ts) and the client   *)
(* factory createClioClient (src/lib/clio-client-production.ts).  Code     *)
(* between two awaits runs without interruption, so each action is one     *)
(* such stretch of one request's handling; several requests may be in      *)
(* flight.  The endpoint reads the limiter's and the session store's       *)
(* state, which earlier traffic has left behind.                           *)
(***************************************************************************)
TokenNotFoundMessage ==
    "Clio token not found. Please authenticate first via https://clio-mcp.th3-sh0p.com and get a session ID from /api/auth/session"
NoContextMessage == "No HTTP request context available"

\* the Map key a session id text names: Sid1 and Sid2 are the ids of the first
\* and second session created, every other text is an id never issued
SessionKey(text) == IF text = Sid1 THEN 1 ELSE IF text = Sid2 THEN 2 ELSE NeverIssued

\* a token taken from a header text: the empty text is falsy
CredentialOf(text) == IF text = <<>> THEN NoToken ELSE text[1]

\* the requests createClioClient is shown, each with what getClioToken()
\* yields for it (the credential of its clio_token cookie)
FactoryInputs ==
    { <<Request(Header(Sid1), Absent, Absent, Absent, Absent), NoToken>>,
      <<Request(Header(Sid1), Header(Bearer \o <<"tokC">>), Absent, Absent, Absent), "tokB">>,
      <<Request(Header(Sid2), Header(BearerSession \o Sid1), Absent, Absent, Absent), NoToken>>,
      <<Request(Absent, Header(BearerSession \o Sid2), Header(Sid1), Absent, Absent), NoToken>>,
      <<Request(Absent, Header(Bearer \o <<"tokC">>), Header(Sid1), Absent, Absent), NoToken>>,
      <<Request(Absent, Header(Bearer), Header(Sid2), Absent, Absent), "tokB">>,
      <<Request(Absent, Header(<<"B", "a", "s", "i", "c", " ">>), Absent, Absent, Absent), NoToken>>,
      <<Request(Absent, Absent, Absent, Absent, Absent), NoToken>> }

\* the requests the endpoint is shown: with a session id, with a token,
\* with no credential
RouteInputs ==
    { <<Request(Header(Sid1), Absent, Absent, Absent, Absent), NoToken>>,
      <<Request(Absent, Header(Bearer \o <<"tokC">>), Absent, Absent, Absent), NoToken>>,
      <<Request(Absent, Absent, Absent, Absent, Absent), NoToken>> }

\* the requests shown to GET, which reads none of the credentials
GetInputs ==
    { <<Request(Header(Sid1), Absent, Absent, Absent, Absent), NoToken>>,
      <<Request(Absent, Absent, Absent, Absent, Absent), NoToken>> }

NoClient == [token |-> NoToken, source |-> "none"]

\* one step of createClioClient's search: st is [token, source, lookups, store],
\* and the session id text is looked up unless a token was found already
LookUp(st, text, source, t) ==
    IF st.token # NoToken THEN st
    ELSE LET sessionId == SessionKey(text)
             token == TokenOfGet(st.store, sessionId, t)
         IN [token |-> token,
             source |-> IF token # NoToken THEN source ELSE st.source,
             lookups |-> Append(st.lookups, sessionId),
             store |-> StoreAfterGet(st.store, sessionId, TRUE, t)]

FromAuthorization_SessionsOnly(st, authorization, t) ==
    IF st.token # NoToken \/ ~Truthy(authorization) THEN st
    ELSE IF StartsWith(authorization.value, BearerSession)
    THEN LookUp(st, Substring(authorization.value, 15), "session_header", t)
    ELSE st

\* the Authorization header: a session id, or else the token itself
FromAuthorization(st, authorization, t) ==
    IF st.token # NoToken \/ ~Truthy(authorization) THEN st
    ELSE IF StartsWith(authorization.value, BearerSession)
    THEN LookUp(st, Substring(authorization.value, 15), "session_header", t)
    ELSE IF StartsWith(authorization.value, Bearer)
    THEN LET token == CredentialOf(Substring(authorization.value, 7))
         IN [st EXCEPT !.token = token,
                       !.source = IF token # NoToken THEN "direct_token" ELSE @]
    ELSE st

\* createClioClient(request) outside mock mode, the store being m at time t
\* and getClioToken() yielding cookie: the token found, where it was found,
\* the session ids looked up, and the store left behind
ResolveToken(request, cookie, m, t) ==
    LET st0 == [token |-> NoToken, source |-> "none", lookups |-> <<>>, store |-> m]
        st1 == IF Truthy(request.sessionId)
               THEN LookUp(st0, request.sessionId.value, "session_query", t)
               ELSE st0
        st2 == FromAuthorization(st1, request.authorization, t)
        st3 == IF Truthy(request.xMcpSessionId)
               THEN LookUp(st2, request.xMcpSessionId.value, "session_header_x", t)
               ELSE st2
    IN IF st3.token = NoToken /\ cookie # NoToken
       THEN [st3 EXCEPT !.token = cookie, !.source = "cookie"]
       ELSE st3

VARIABLES
    factoryLast      \* the last call of createClioClient and what came of it

factoryVars == <<factoryLast>>

NoFactoryCall ==
    [called |-> FALSE, request |-> NoRequest, cookie |-> NoToken, token |-> NoToken,
     source |-> "none", lookups |-> <<>>, threw |-> ""]

FactoryInit == factoryLast = NoFactoryCall

\* createClioClient(request) outside mock mode: a ClioClient bound to the
\* token found, or the error thrown when there is none
createClioClient(request, cookie) ==
    LET found == ResolveToken(request, cookie, sessionStore, now)
    IN /\ sessionStore' = found.store
       /\ factoryLast' =
              [called |-> TRUE, request |-> request, cookie |-> cookie,
               token |-> found.token, source |-> found.source, lookups |-> found.lookups,
               threw |-> IF found.token = NoToken THEN TokenNotFoundMessage ELSE ""]
       /\ UNCHANGED <<now, ticks, issued, lastOp>>

ToolNames ==
    {"get_matter_intelligence_brief", "perform_ethical_conflict_check",
     "audit_unbilled_activities"}

\* the string field each tool's schema requires
RequiredField(name) ==
    IF name = "perform_ethical_conflict_check" THEN "search_query" ELSE "matter_id"

\* z.string().min(1, '<field> is required')
MinMessage(field) ==
    IF field = "search_query" THEN "search_query is required" ELSE "matter_id is required"

\* the arguments of a tool call, as far as the schemas look at them: the
\* required field is missing, the empty string, or a non-empty string
ToolArgs == {Absent, Header(<<>>), Header(<<"7">>)}

\* the tools/call messages the endpoint is shown: a valid call, one without
\* the required field, one with the field empty, one of no known tool
ToolCalls ==
    { <<"get_matter_intelligence_brief", Header(<<"7">>)>>,
      <<"audit_unbilled_activities", Absent>>,
      <<"perform_ethical_conflict_check", Header(<<>>)>>,
      <<"unknown_tool", Header(<<"7">>)>> }

\* Schema.parse(args): the issues of the ZodError it throws, none if it passes
SchemaIssues(name, args) ==
    IF ~args.present THEN <<[path |-> <<RequiredField(name)>>, message |-> "Required"]>>
    ELSE IF Len(args.value) < 1
    THEN <<[path |-> <<RequiredField(name)>>, message |-> MinMessage(RequiredField(name))]>>
    ELSE <<>>

\* issues.map(issue => `${issue.path.join('.')}: ${issue.message}`)
FormatIssues(issues) ==
    [k \in DOMAIN issues |-> issues[k].path \o <<": ", issues[k].message>>]

\* what the tool handler returns
ToolText == [isError |-> FALSE, error |-> "", details |-> <<>>]
ToolError(message) == [isError |-> TRUE, error |-> message, details |-> <<>>]
ToolValidationError(issues) ==
    [isError |-> TRUE, error |-> "Validation error", details |-> FormatIssues(issues)]
NoResult == [isError |-> FALSE, error |-> "none", details |-> <<>>]

\* what an engine may end with once it has been called: its report, or an
\* error such as the client's authentication error
EngineOutcomes == {ToolText, ToolError(AuthMessage)}

VARIABLES
    useMockData,         \* process.env.USE_MOCK_DATA === 'true'
    currentHttpRequest,  \* the request stored for tool handlers: its number, 0 for undefined
    http                 \* http[i]: the handling of the i-th request received

routeVars == <<useMockData, currentHttpRequest, http>>

Undefined == 0
NoCall == <<"", Absent>>
NoResponse == [status |-> 0, body |-> "", retryAfter |-> 0, headers |-> <<>>]

\* a request not yet received
Idle ==
    [pc |-> "idle", method |-> "", request |-> NoRequest, cookie |-> NoToken,
     rateLimit |-> NoCheck, call |-> NoCall, lookups |-> <<>>, client |-> NoClient,
     remoteCalls |-> 0, toolResult |-> NoResult, response |-> NoResponse]

\* the i-th request is the next to be received
NextToReceive(i) ==
    /\ http[i].pc = "idle"
    /\ \A j \in 1..(i - 1) : http[j].pc # "idle"

IsDenied_Never(rateLimit) == FALSE

\* if (!rateLimit.allowed)
IsDenied(rateLimit) == ~rateLimit.allowed

\* the 429 response of GET and POST
RateLimitResponse(rateLimit, t) ==
    [status |-> 429, body |-> "Rate limit exceeded",
     retryAfter |-> CeilDiv(rateLimit.resetAt - t, 1000), headers |-> rateLimit.headers]

\* GET and POST up to `await transport.handleRequest(request)`
Limited(i, method, request, cookie) ==
    LET rateLimit == RateLimitResult(rateLimitStore, request, rlNow, 10, 60000)
        received == [http[i] EXCEPT !.method = method, !.request = request,
                                    !.cookie = cookie, !.rateLimit = rateLimit]
    IN /\ NextToReceive(i)
       /\ rateLimitStore' = StoreAfterCheck(rateLimitStore, request, rlNow, 60000)
       /\ rlLast' = rateLimit
       /\ rlChecks' = rlChecks + 1
       /\ IF IsDenied(rateLimit)
          THEN /\ http' = [http EXCEPT ![i] =
                     [received EXCEPT !.pc = "done",
                                      !.response = RateLimitResponse(rateLimit, rlNow)]]
               /\ UNCHANGED currentHttpRequest
          ELSE /\ http' = [http EXCEPT ![i] = [received EXCEPT !.pc = "transport"]]
               /\ currentHttpRequest' = i
       /\ UNCHANGED <<rlNow, rlTicks, useMockData, sessionVars>>

GET(i, request, cookie) == Limited(i, "GET", request, cookie)

POST(i, request, cookie) == Limited(i, "POST", request, cookie)

\* DELETE up to `await transport.handleRequest(request)`: nothing of the
\* request is read
DELETE(i) ==
    /\ NextToReceive(i)
    /\ http' = [http EXCEPT ![i] = [@ EXCEPT !.pc = "transport", !.method = "DELETE"]]
    /\ UNCHANGED <<useMockData, currentHttpRequest, limiterVars, sessionVars>>

\* the handling of request i goes on with slot fields changed
Goes(i, slot) == http' = [http EXCEPT ![i] = slot]

\* the tool handler, called by the transport inside handleRequest of POST
\* request i for a tools/call message: createClioClient(currentHttpRequest),
\* the schema, and the call of the engine
CallTool(i, name, args) ==
    /\ http[i].pc = "transport"
    /\ http[i].method = "POST"
    /\ IF currentHttpRequest = Undefined
       THEN /\ Goes(i, [http[i] EXCEPT !.pc = "responding", !.call = <<name, args>>,
                                       !.toolResult = ToolError(NoContextMessage)])
            /\ UNCHANGED sessionStore
       ELSE LET found == ResolveToken(http[currentHttpRequest].request, http[i].cookie,
                                      sessionStore, now)
                client == IF useMockData THEN [token |-> NoToken, source |-> "mock"]
                          ELSE [token |-> found.token, source |-> found.source]
                made == [http[i] EXCEPT !.call = <<name, args>>, !.client = client,
                                        !.lookups = IF useMockData THEN <<>> ELSE found.lookups]
            IN /\ sessionStore' = IF useMockData THEN sessionStore ELSE found.store
               /\ IF ~useMockData /\ found.token = NoToken
                  THEN Goes(i, [made EXCEPT !.pc = "responding", !.client = NoClient,
                                            !.toolResult = ToolError(TokenNotFoundMessage)])
                  ELSE IF name \notin ToolNames
                  THEN Goes(i, [made EXCEPT !.pc = "responding",
                                            !.toolResult = ToolError("Unknown tool")])
                  ELSE IF SchemaIssues(name, args) # <<>>
                  THEN Goes(i, [made EXCEPT !.pc = "responding",
                                   !.toolResult = ToolValidationError(SchemaIssues(name, args))])
                  ELSE Goes(i, [made EXCEPT !.pc = "engine"])
    /\ UNCHANGED <<useMockData, currentHttpRequest, limiterVars, now, ticks, issued, lastOp>>

\* the engine ends; outside mock mode it has called the remote API
EngineEnds(i, outcome) ==
    /\ http[i].pc = "engine"
    /\ Goes(i, [http[i] EXCEPT !.pc = "responding", !.toolResult = outcome,
                               !.remoteCalls = IF useMockData THEN 0 ELSE 1])
    /\ UNCHANGED <<useMockData, currentHttpRequest, limiterVars, sessionVars>>

\* handleRequest answers a request that is no tools/call message
TransportAnswers(i) ==
    /\ http[i].pc = "transport"
    /\ Goes(i, [http[i] EXCEPT !.pc = "responding"])
    /\ UNCHANGED <<useMockData, currentHttpRequest, limiterVars, sessionVars>>

\* handleRequest rejects
TransportThrows(i) ==
    /\ http[i].pc = "transport"
    /\ Goes(i, [http[i] EXCEPT !.pc = "rejected"])
    /\ UNCHANGED <<useMockData, currentHttpRequest, limiterVars, sessionVars>>

\* after `await transport.handleRequest(request)`: GET and POST add the
\* limiter's headers and clear currentHttpRequest, DELETE does neither
Respond(i) ==
    /\ http[i].pc = "responding"
    /\ Goes(i, [http[i] EXCEPT !.pc = "done",
                   !.response = [status |-> 200, body |-> "transport", retryAfter |-> 0,
                                 headers |-> IF http[i].method = "DELETE" THEN <<>>
                                             ELSE http[i].rateLimit.headers]])
    /\ currentHttpRequest' =
           IF http[i].method = "DELETE" THEN currentHttpRequest ELSE Undefined
    /\ UNCHANGED <<useMockData, limiterVars, sessionVars>>

\* the catch block of GET, POST and DELETE
Catch(i) ==
    /\ http[i].pc = "rejected"
    /\ Goes(i, [http[i] EXCEPT !.pc = "done",
                   !.response = [status |-> 500, body |-> "Internal server error",
                                 retryAfter |-> 0, headers |-> <<>>]])
    /\ currentHttpRequest' =
           IF http[i].method = "DELETE" THEN currentHttpRequest ELSE Undefined
    /\ UNCHANGED <<useMockData, limiterVars, sessionVars>>

\* the module state after load
RouteInit ==
    /\ useMockData = FALSE
    /\ currentHttpRequest = Undefined
    /\ http = [i \in 1..MaxRequests |-> Idle]

\* what earlier traffic has left in the session store when the endpoint is
\* observed: one session, created at time 0 with credential tokA, which is
\* due for a refresh (a second less than 7 days left) or has expired
SessionsBefore ==
    /\ \E t \in {<<23 * Day + 1, 2>>, <<31 * Day, 1>>} : now = t[1] /\ ticks = t[2]
    /\ sessionStore = MapSet(<<>>, 1, NewSession("tokA", 0))
    /\ issued = <<"tokA">>
    /\ lastOp = Op("tick", NeverIssued, FALSE, "", NoToken, "")

\* and in the limiter: nothing, or the 10 requests of identity session:1
\* that use up its window
LimiterBefore ==
    /\ rlNow = 0
    /\ rlTicks = 0
    /\ rlLast = NoCheck
    /\ \/ rlChecks = 0 /\ rateLimitStore = <<>>
       \/ /\ rlChecks = 10
          /\ rateLimitStore = MapSet(<<>>, <<"session:">> \o Sid1,
                                     [count |-> 10, resetAt |-> 60000])

\* mock mode is observed with an empty limiter only
RouteStart ==
    /\ ClientInit
    /\ FactoryInit
    /\ EnginesInit
    /\ RetryInit
    /\ SessionsBefore
    /\ LimiterBefore
    /\ useMockData \in BOOLEAN
    /\ useMockData => rateLimitStore = <<>> /\ now = 31 * Day
    /\ currentHttpRequest = Undefined
    /\ http = [i \in 1..MaxRequests |-> Idle]

(***************************************************************************)
(* Specifications: one per component, the other component at rest.         *)
(***************************************************************************)
vars == <<clientVars, sessionVars, limiterVars, factoryVars, routeVars, engineVars, retryVars>>

Init ==
    ClientInit /\ SessionsInit /\ LimiterInit /\ FactoryInit /\ RouteInit /\ EnginesInit /\ RetryInit

ClientNext ==
    \/ ClientTick /\ UNCHANGED <<sessionVars, limiterVars, factoryVars, routeVars, engineVars, retryVars>>
    \/ StartCall /\ UNCHANGED <<sessionVars, limiterVars, factoryVars, routeVars, engineVars, retryVars>>
    \/ AttemptEnds /\ UNCHANGED <<sessionVars, limiterVars, factoryVars, routeVars, engineVars, retryVars>>
    \/ Retry /\ UNCHANGED <<sessionVars, limiterVars, factoryVars, routeVars, engineVars, retryVars>>

SpecClient == Init /\ [][ClientNext]_vars

\* the client when timers fire, every attempt ends and every sleep is followed
\* by its retry
CompletesNext ==
    \/ TimerFires /\ UNCHANGED <<sessionVars, limiterVars, factoryVars, routeVars, engineVars, retryVars>>
    \/ StartCall /\ UNCHANGED <<sessionVars, limiterVars, factoryVars, routeVars, engineVars, retryVars>>
    \/ AttemptEnds /\ UNCHANGED <<sessionVars, limiterVars, factoryVars, routeVars, engineVars, retryVars>>
    \/ Retry /\ UNCHANGED <<sessionVars, limiterVars, factoryVars, routeVars, engineVars, retryVars>>

SpecCompletes ==
    /\ Init
    /\ [][CompletesNext]_vars
    /\ WF_clientVars(TimerFires)
    /\ WF_clientVars(AttemptEnds)
    /\ WF_clientVars(Retry)

SessionsNext ==
    \/ Tick /\ UNCHANGED <<clientVars, limiterVars, factoryVars, routeVars, engineVars, retryVars>>
    \/ \E cred \in Credentials \cup {NoToken} :
          createSession(cred) /\ UNCHANGED <<clientVars, limiterVars, factoryVars, routeVars, engineVars, retryVars>>
    \/ \E id \in KnownIds, autoRefresh \in BOOLEAN :
          getSessionToken(id, autoRefresh) /\ UNCHANGED <<clientVars, limiterVars, factoryVars, routeVars, engineVars, retryVars>>
    \/ \E id \in KnownIds : deleteSession(id) /\ UNCHANGED <<clientVars, limiterVars, factoryVars, routeVars, engineVars, retryVars>>
    \/ \E id \in KnownIds : getSession(id) /\ UNCHANGED <<clientVars, limiterVars, factoryVars, routeVars, engineVars, retryVars>>
    \/ cleanupExpired /\ UNCHANGED <<clientVars, limiterVars, factoryVars, routeVars, engineVars, retryVars>>

SpecSessions == Init /\ [][SessionsNext]_vars

LimiterNext ==
    \/ LimiterTick /\ UNCHANGED <<clientVars, sessionVars, factoryVars, routeVars, engineVars, retryVars>>
    \/ \E request \in LimiterRequests :
          checkRateLimit(request) /\ UNCHANGED <<clientVars, sessionVars, factoryVars, routeVars, engineVars, retryVars>>
    \/ cleanupRateLimit /\ UNCHANGED <<clientVars, sessionVars, factoryVars, routeVars, engineVars, retryVars>>

SpecLimiter == Init /\ [][LimiterNext]_vars

\* the limiter with a caller that remembers its last denial
RetryNext ==
    \/ LimiterTick /\ UNCHANGED <<clientVars, sessionVars, factoryVars, routeVars, engineVars, retryVars>>
    \/ \E request \in LimiterRequests :
          CallerRequests(request) /\ UNCHANGED <<clientVars, sessionVars, factoryVars, routeVars, engineVars>>
    \/ cleanupRateLimit /\ UNCHANGED <<clientVars, sessionVars, factoryVars, routeVars, engineVars, retryVars>>

SpecRetry == Init /\ [][RetryNext]_vars

FactoryNext ==
    \/ Tick /\ UNCHANGED <<clientVars, limiterVars, factoryVars, routeVars, engineVars, retryVars>>
    \/ createSession("tokA") /\ UNCHANGED <<clientVars, limiterVars, factoryVars, routeVars, engineVars, retryVars>>
    \/ \E input \in FactoryInputs :
          createClioClient(input[1], input[2]) /\ UNCHANGED <<clientVars, limiterVars, routeVars, engineVars, retryVars>>

SpecFactory == Init /\ [][FactoryNext]_vars

RouteNext ==
    \/ \E i \in 1..MaxRequests, input \in GetInputs :
          GET(i, input[1], input[2]) /\ UNCHANGED <<clientVars, factoryVars, engineVars, retryVars>>
    \/ \E i \in 1..MaxRequests, input \in RouteInputs :
          POST(i, input[1], input[2]) /\ UNCHANGED <<clientVars, factoryVars, engineVars, retryVars>>
    \/ \E i \in 1..MaxRequests : DELETE(i) /\ UNCHANGED <<clientVars, factoryVars, engineVars, retryVars>>
    \/ \E i \in 1..MaxRequests, call \in ToolCalls :
          CallTool(i, call[1], call[2]) /\ UNCHANGED <<clientVars, factoryVars, engineVars, retryVars>>
    \/ \E i \in 1..MaxRequests, outcome \in EngineOutcomes :
          EngineEnds(i, outcome) /\ UNCHANGED <<clientVars, factoryVars, engineVars, retryVars>>
    \/ \E i \in 1..MaxRequests : TransportAnswers(i) /\ UNCHANGED <<clientVars, factoryVars, engineVars, retryVars>>
    \/ \E i \in 1..MaxRequests : TransportThrows(i) /\ UNCHANGED <<clientVars, factoryVars, engineVars, retryVars>>
    \/ \E i \in 1..MaxRequests : Respond(i) /\ UNCHANGED <<clientVars, factoryVars, engineVars, retryVars>>
    \/ \E i \in 1..MaxRequests : Catch(i) /\ UNCHANGED <<clientVars, factoryVars, engineVars, retryVars>>

SpecRoute == RouteStart /\ [][RouteNext]_vars

otherThanBrief ==
    <<clientVars, sessionVars, limiterVars, factoryVars, routeVars, conflictVars, auditVars, redactVars,
      instanceVars, retryVars>>

BriefNext ==
    \/ StartBrief /\ UNCHANGED otherThanBrief
    \/ \E f \in FetchNames : \E outcome \in FetchOutcomes(f) :
          Settle(f, outcome) /\ UNCHANGED otherThanBrief
    \/ FinishBrief /\ UNCHANGED otherThanBrief

SpecBrief == Init /\ [][BriefNext]_vars

otherThanConflict ==
    <<clientVars, sessionVars, limiterVars, factoryVars, routeVars, briefVars, auditVars, redactVars,
      instanceVars, retryVars>>

ConflictNext ==
    \/ \E q \in Queries : StartConflictCheck(q) /\ UNCHANGED otherThanConflict
    \/ \E call \in ConflictCalls : \E outcome \in SearchOutcomes(call, ccQuery) :
          SearchSettles(call, outcome) /\ UNCHANGED otherThanConflict
    \/ \E outcome \in ListingOutcomes : ListingSettles(outcome) /\ UNCHANGED otherThanConflict
    \/ \E k \in DOMAIN ccDetails : \E outcome \in DetailOutcomes(ccCandidates[k]) :
          DetailSettles(k, outcome) /\ UNCHANGED otherThanConflict
    \/ FinishConflictCheck /\ UNCHANGED otherThanConflict

SpecConflict == Init /\ [][ConflictNext]_vars

\* the two fan-outs side by side, their remote calls ending in any order
FanOutNext == BriefNext \/ ConflictNext

SpecFanOut == Init /\ [][FanOutNext]_vars

\* the conflict check against a remote with many matters; the detail fetches
\* end in candidate order, each with what the remote holds for the id
CandidatesNext ==
    \/ \E q \in Queries : StartConflictCheck(q) /\ UNCHANGED otherThanConflict
    \/ \E call \in ConflictCalls : \E outcome \in ManySearchOutcomes(call, ccQuery) :
          SearchSettles(call, outcome) /\ UNCHANGED otherThanConflict
    \/ \E outcome \in ManyListingOutcomes : ListingSettles(outcome) /\ UNCHANGED otherThanConflict
    \/ \E k \in DOMAIN ccDetails :
          /\ \A j \in 1..(k - 1) : ccDetails[j].status # "pending"
          /\ DetailSettles(k, MatterDetail(ccCandidates[k].id))
          /\ UNCHANGED otherThanConflict
    \/ FinishConflictCheck /\ UNCHANGED otherThanConflict

SpecCandidates == Init /\ [][CandidatesNext]_vars

otherThanAudit ==
    <<clientVars, sessionVars, limiterVars, factoryVars, routeVars, briefVars, conflictVars, redactVars,
      instanceVars, retryVars>>

AuditNext ==
    \/ StartAudit /\ UNCHANGED otherThanAudit
    \/ \E outcome \in AuditOutcomes : PrimarySettles(outcome) /\ UNCHANGED otherThanAudit
    \/ \E outcome \in AuditOutcomes : FallbackSettles(outcome) /\ UNCHANGED otherThanAudit

SpecAudit == Init /\ [][AuditNext]_vars

otherThanRedact ==
    <<clientVars, sessionVars, limiterVars, factoryVars, routeVars, briefVars, conflictVars,
      auditVars, instanceVars, retryVars>>

RedactNext == Redact /\ UNCHANGED otherThanRedact

\* a text is there to be redacted
RedactStart ==
    /\ ClientInit /\ SessionsInit /\ LimiterInit /\ FactoryInit /\ RouteInit
    /\ BriefInit /\ ConflictInit /\ AuditInit /\ InstanceInit /\ RetryInit
    /\ redactInput \in InputTexts
    /\ redactOutputs = <<>>

SpecRedact == RedactStart /\ [][RedactNext]_vars

otherThanInstance ==
    <<clientVars, sessionVars, limiterVars, factoryVars, routeVars, briefVars, conflictVars,
      auditVars, redactVars, retryVars>>

InstanceNext ==
    \/ InstanceTick /\ UNCHANGED otherThanInstance
    \/ \E call \in InstanceCalls : IssueRequest(call) /\ UNCHANGED otherThanInstance
    \/ \E call \in InstanceCalls : \E o \in InstanceOutcomes :
          Receive(call, o) /\ UNCHANGED otherThanInstance
    \/ \E call \in InstanceCalls : RetryRequest(call) /\ UNCHANGED otherThanInstance

\* the instance as a fan-out finds it, with something to search for
InstanceStart ==
    /\ ClientInit /\ SessionsInit /\ LimiterInit /\ FactoryInit /\ RouteInit
    /\ BriefInit /\ ConflictInit /\ AuditInit /\ RedactInit /\ RetryInit
    /\ ciRedactions = Redactions
    /\ ciNow = 1000
    /\ ciTicks = 0
    /\ ciQuery \in LoggedQueries
    /\ rateLimitState = [remaining |-> Num(defaultRemaining),
                         resetAt |-> Num(1000 + defaultResetDelay)]
    /\ ciCalls = [call \in InstanceCalls |-> NotCalled]
    /\ ciReceived = 0
    /\ ciLast = NothingReceived
    /\ ciLog = <<>>

SpecInstance == InstanceStart /\ [][InstanceNext]_vars

(***************************************************************************)
(* The retry policy of the client (C1 - C5), under SpecClient.             *)
(***************************************************************************)
Last(q) == q[Len(q)]
All429 == outcomes # <<>> /\ \A i \in DOMAIN outcomes : outcomes[i].status = 429
All5xx ==
    /\ outcomes # <<>>
    /\ \A i \in DOMAIN outcomes : outcomes[i].kind = "response" /\ outcomes[i].status >= 500
Finished == phase = "done"

\* C1 as stated: when the remote answers every attempt with 429, the client
\* makes at most 3 remote attempts in total.
C1_AtMostThreeAttempts == All429 => attempts <= 3

\* C1 as amended: when the remote answers every attempt with 429, the client
\* makes at most 4 remote attempts (the first and 3 retries); the call ends at
\* the 4th 429 with the rate-limit-exceeded error, and no call ever makes a
\* 5th attempt.
C1_AtMostFourAttempts ==
    /\ attempts <= 4
    /\ All429 /\ Finished =>
          /\ attempts = 4
          /\ Len(outcomes) = 4
          /\ result = [kind |-> "Error", status |-> 0,
                       message |-> "Rate limit exceeded. Please try again later."]
    /\ All429 /\ Len(outcomes) < 4 => ~Finished

\* a call answered 429 four times has ended with the rate-limit error
C1_Witness ==
    /\ Finished
    /\ All429
    /\ attempts = 4
    /\ result.message = RateLimitMessage

\* C2: a 401 ends the call at the attempt that received it, with the
\* authentication error that asks to re-authenticate, and no attempt follows
\* it, whatever the retry count so far.
C2_401FailsAtOnce ==
    \A i \in DOMAIN outcomes :
        (outcomes[i].kind = "response" /\ outcomes[i].status = 401) =>
            /\ i = Len(outcomes)
            /\ attempts = i
            /\ Finished
            /\ result = [kind |-> "Error", status |-> 0,
                         message |-> "Authentication failed. Please re-authenticate via the web interface."]

\* a 401 received on the second retry has ended the call
C2_Witness ==
    /\ Finished
    /\ Len(outcomes) = 3
    /\ outcomes[3].status = 401
    /\ retryCount = 2
    /\ result.message = AuthMessage

\* C3 as stated: when the remote answers every attempt with a status >= 500,
\* the client makes at most 3 remote attempts in total.
C3_AtMostThreeAttempts == All5xx => attempts <= 3

\* C3 as amended: when the remote answers every attempt with a status >= 500,
\* the client waits 1 s x 2^k before retry k (k = 0, 1, 2), never retries
\* before the wait is over, makes at most 4 remote attempts (the first and 3
\* retries), and on exhaustion hands the caller the error of the last attempt.
C3_ServerErrorsRetried ==
    All5xx =>
        /\ attempts <= 4
        /\ \A k \in DOMAIN waits : waits[k] = [nan |-> FALSE, val |-> 1000 * 2 ^ (k - 1)]
        /\ phase = "inflight" /\ attempts > 1 => sentAt >= sleptFrom + Last(waits).val
        /\ Len(outcomes) < 4 => ~Finished /\ Len(waits) = Len(outcomes)
        /\ Finished =>
              /\ attempts = 4
              /\ result.kind = "AxiosError"
              /\ result.status = outcomes[4].status

\* four server errors in a row, a 500 last: the caller has that 500's error
C3_Witness ==
    /\ Finished
    /\ All5xx
    /\ Len(outcomes) = 4
    /\ outcomes[1].status = 503
    /\ outcomes[4].status = 500
    /\ result.status = 500
    /\ waits = <<Num(1000), Num(2000), Num(4000)>>

\* C4: an attempt that times out is retried like a 5xx, so a call whose last
\* attempt timed out has failed only once the attempt cap (3 attempts at the
\* least) is used up.
C4_TimeoutRetried ==
    (Finished /\ outcomes # <<>> /\ Last(outcomes).kind = "timeout") => attempts >= 3

\* C5: before retry k (k = 0 for the first retry) after a 429 the client waits
\* the retry-after seconds when the header gives a number of seconds, else
\* 1 s x 2^k, and the retry is never sent before that wait is over; so
\* 429, 429, 200 without retry-after yields the 200 after exactly three
\* attempts and waits of 1 s and 2 s.
C5_RateLimitWaits ==
    /\ \A k \in DOMAIN waits :
          outcomes[k].status = 429 =>
              /\ outcomes[k].retryAfter = Header(<<"2">>) => waits[k] = Num(2000)
              /\ outcomes[k].retryAfter = Absent => waits[k] = Num(1000 * 2 ^ (k - 1))
    /\ (phase = "inflight" /\ attempts > 1 /\ ~Last(waits).nan) =>
          sentAt >= sleptFrom + Last(waits).val
    /\ (/\ Len(outcomes) = 3
        /\ \A i \in 1..2 : outcomes[i].status = 429 /\ outcomes[i].retryAfter = Absent
        /\ outcomes[3].status = 200) =>
          /\ Finished
          /\ attempts = 3
          /\ result = [kind |-> "response", status |-> 200, message |-> ""]
          /\ waits = <<Num(1000), Num(2000)>>
          /\ clientNow >= startedAt + 3000

\* 429, 429, 200 without retry-after: the 200 arrives 3 s after the call began
C5_Witness ==
    /\ Finished
    /\ Len(outcomes) = 3
    /\ \A i \in 1..2 : outcomes[i].status = 429 /\ outcomes[i].retryAfter = Absent
    /\ outcomes[3].status = 200
    /\ result.status = 200
    /\ clientNow = startedAt + 3000

(***************************************************************************)
(* The session store (C6 - C10), under SpecSessions.  Every action writes   *)
(* its name to lastOp, so a step of operation op is one that ends with     *)
(* lastOp naming op.                                                       *)
(***************************************************************************)
OpStep(op) == lastOp'.op = op
Live(id) == id \in DOMAIN sessionStore /\ sessionStore[id].expiresAt >= now
\* an id whose entry is gone is never stored again
NeverStoredAgain ==
    \A id \in DOMAIN issued : id \notin DOMAIN sessionStore => id \notin DOMAIN sessionStore'

\* C6: create() with a credential stores a new session bound to it, with
\* createdAt = now and expiresAt = now + 30 days, under a new id that it
\* returns; without a credential it fails with the not-authenticated error
\* and leaves the session table as it was.
C6_Create ==
    [][OpStep("create") =>
         IF lastOp'.token # NoToken
         THEN /\ lastOp'.threw = ""
              /\ lastOp'.id \notin DOMAIN sessionStore
              /\ lastOp'.id \notin DOMAIN issued
              /\ DOMAIN sessionStore' = DOMAIN sessionStore \cup {lastOp'.id}
              /\ sessionStore'[lastOp'.id] =
                    [token |-> lastOp'.token, createdAt |-> now,
                     expiresAt |-> now + 30 * 24 * 60 * 60]
              /\ \A j \in DOMAIN sessionStore : sessionStore'[j] = sessionStore[j]
         ELSE /\ lastOp'.threw =
                    "Not authenticated. Please authenticate via the web interface first."
              /\ sessionStore' = sessionStore]_vars

\* a second session has been created, later than the first
C6_Witness ==
    /\ lastOp.op = "create"
    /\ lastOp.threw = ""
    /\ now > 0
    /\ DOMAIN sessionStore = {1, 2}
    /\ sessionStore[2].token = lastOp.token

\* C7: resolve(id) returns the credential bound at creation exactly when the
\* session exists and its expiry has not passed; called on a session whose
\* expiry has passed it returns none and removes the entry, and a removed
\* entry is never seen again.
C7_Resolve ==
    [][/\ OpStep("resolve") =>
            IF Live(lastOp'.id)
            THEN /\ lastOp'.token = issued[lastOp'.id]
                 /\ lastOp'.token # NoToken
                 /\ lastOp'.id \in DOMAIN sessionStore'
            ELSE /\ lastOp'.token = NoToken
                 /\ lastOp'.id \notin DOMAIN sessionStore'
       /\ NeverStoredAgain]_vars

\* a session has been resolved after its expiry: none returned, entry removed
C7_Witness ==
    /\ lastOp.op = "resolve"
    /\ lastOp.found = "expired"
    /\ lastOp.token = NoToken
    /\ lastOp.id \notin DOMAIN sessionStore
    /\ lastOp.id \in DOMAIN issued

\* C8: resolve(id) of a live session sets expiresAt to now + 30 days when
\* autoRefresh is on and the remaining TTL is < 7 days, and leaves expiresAt
\* unchanged otherwise; the credential and createdAt never change.
C8_SlidingRefresh ==
    [][(OpStep("resolve") /\ Live(lastOp'.id)) =>
         LET id == lastOp'.id
             old == sessionStore[id]
         IN /\ id \in DOMAIN sessionStore'
            /\ sessionStore'[id].token = old.token
            /\ sessionStore'[id].createdAt = old.createdAt
            /\ sessionStore'[id].expiresAt =
                  IF lastOp'.autoRefresh /\ old.expiresAt - now < 7 * 24 * 60 * 60
                  THEN now + 30 * 24 * 60 * 60
                  ELSE old.expiresAt]_vars

\* a session created at 0 has been refreshed by a resolve with TTL < 7 days
C8_Witness ==
    /\ lastOp.op = "resolve"
    /\ lastOp.found = "refreshed"
    /\ lastOp.id \in DOMAIN sessionStore
    /\ sessionStore[lastOp.id].createdAt = 0
    /\ sessionStore[lastOp.id].expiresAt = now + sessionTtl
    /\ now > 23 * Day

\* C9: a session that has just been resolved with auto-refresh, at time t,
\* is still resolvable when the clock then advances to any time up to
\* t + 30 days.
C9_ThirtyDaysOfInactivity ==
    [][(/\ lastOp.op = "resolve"
        /\ lastOp.autoRefresh
        /\ lastOp.token # NoToken
        /\ now' > now
        /\ now' <= now + 30 * 24 * 60 * 60)
          => /\ lastOp.id \in DOMAIN sessionStore'
             /\ sessionStore'[lastOp.id].expiresAt >= now']_vars

\* C10: revoke(id) removes the entry of id, be it live, expired or absent,
\* and changes no other session; from then on the id is never stored again
\* and resolve(id) returns none.
C10_Revoke ==
    [][/\ OpStep("revoke") =>
            /\ lastOp'.id \notin DOMAIN sessionStore'
            /\ DOMAIN sessionStore' = DOMAIN sessionStore \ {lastOp'.id}
            /\ \A j \in DOMAIN sessionStore' : sessionStore'[j] = sessionStore[j]
       /\ NeverStoredAgain
       /\ (OpStep("resolve") /\ lastOp'.id \notin DOMAIN sessionStore) =>
            lastOp'.token = NoToken]_vars

\* an expired session has been revoked while another session stays stored
C10_Witness ==
    /\ lastOp.op = "revoke"
    /\ lastOp.found = "expired"
    /\ lastOp.id \notin DOMAIN sessionStore
    /\ DOMAIN sessionStore # {}

(***************************************************************************)
(* The inbound rate limiter (C11 - C13), under SpecLimiter.  A step that    *)
(* checks a request is one that increases rlChecks; rlLast describes the   *)
(* request checked and the result returned.                                *)
(***************************************************************************)
Checked == rlLast.identifier # <<>>
CheckStep == rlChecks' = rlChecks + 1

\* C11: with the default limits (10 per 60 s) the first 10 requests of an
\* identity inside a window are allowed, the 11th and every further request
\* inside that window is denied with a strictly positive retry-after, and
\* the request that starts a new window is the first of it and is allowed.
C11_TenPerWindow ==
    Checked =>
        /\ rlLast.count <= 10 => rlLast.allowed
        /\ rlLast.count > 10 =>
               /\ ~rlLast.allowed
               /\ "Retry-After" \in DOMAIN rlLast.headers
               /\ rlLast.headers["Retry-After"] > 0
        /\ rlLast.created => rlLast.count = 1 /\ rlLast.allowed

\* C12: the window is fixed.  A request of an identity whose window has not
\* elapsed adds one to the count and leaves windowResetAt as it is, allowed
\* or denied; a request that finds no entry, or one whose windowResetAt has
\* elapsed, starts over with count 1 and a window of 60 s from now; a check
\* touches no other identity's entry, and nothing but a check changes an
\* entry whose window has not elapsed.
C12_FixedWindow ==
    [][ /\ CheckStep =>
              LET k == rlLast'.identifier
              IN /\ k \in DOMAIN rateLimitStore'
                 /\ \A i \in DOMAIN rateLimitStore \ {k} :
                        i \in DOMAIN rateLimitStore' /\ rateLimitStore'[i] = rateLimitStore[i]
                 /\ IF k \in DOMAIN rateLimitStore /\ rateLimitStore[k].resetAt >= rlNow
                    THEN /\ rateLimitStore'[k].count = rateLimitStore[k].count + 1
                         /\ rateLimitStore'[k].resetAt = rateLimitStore[k].resetAt
                    ELSE /\ rateLimitStore'[k].count = 1
                         /\ rateLimitStore'[k].resetAt = rlNow + 60000
        /\ ~CheckStep =>
              \A i \in DOMAIN rateLimitStore :
                  rateLimitStore[i].resetAt >= rlNow' =>
                      i \in DOMAIN rateLimitStore' /\ rateLimitStore'[i] = rateLimitStore[i]
      ]_vars

\* a denied request, made after the clock has advanced inside the window that
\* began at time 0, has left windowResetAt where the first request put it
C12_Witness ==
    /\ Checked
    /\ rlNow > 0
    /\ ~rlLast.allowed
    /\ rlLast.count = 11
    /\ rlLast.resetAt = 60000
    /\ rateLimitStore[rlLast.identifier] = [count |-> 11, resetAt |-> 60000]

\* C13: the limiter keys a request by its sessionId query parameter, else by
\* the session id of a "Bearer session:<id>" Authorization header, else by
\* the session id of the X-MCP-Session-ID header, else by the source IP.
C13_IdentityOrder ==
    Checked =>
        LET r == rlLast.request
        IN IF Truthy(r.sessionId)
           THEN rlLast.identifier = <<"session:">> \o r.sessionId.value
           ELSE IF Truthy(r.authorization) /\ StartsWith(r.authorization.value, BearerSession)
           THEN rlLast.identifier = <<"session:">> \o Substring(r.authorization.value, 15)
           ELSE IF Truthy(r.xMcpSessionId)
           THEN rlLast.identifier = <<"session:">> \o r.xMcpSessionId.value
           ELSE Head(rlLast.identifier) = "ip:"

(***************************************************************************)
(* The invocation endpoint (C14, C15, C17), under SpecRoute.               *)
(***************************************************************************)
Requests == 1..MaxRequests
WasChecked(h) == h.rateLimit.identifier # <<>>
Denied(h) == WasChecked(h) /\ ~h.rateLimit.allowed
InvalidInput(h) ==
    /\ h.call[1] \in ToolNames
    /\ (~h.call[2].present \/ h.call[2].value = <<>>)

\* C14: a GET or POST request is checked by the limiter before anything
\* else is done for it: whenever a session was looked up, a client was
\* built, a tool ran or a remote call was made for a request, the limiter
\* had allowed that request; a request the limiter denies is answered at
\* once with the 429 rejection, and its handling looks up no session,
\* leaves the session store as it is (no sliding refresh), builds no client
\* and makes no remote call.
C14_LimiterFirst ==
    [][ \A i \in Requests :
           LET h == http'[i]
           IN /\ h.method \in {"GET", "POST"} => WasChecked(h)
              /\ ( \/ h.lookups # <<>>
                   \/ h.client # NoClient
                   \/ h.call # NoCall
                   \/ h.remoteCalls > 0 ) => WasChecked(h) /\ h.rateLimit.allowed
              /\ Denied(h) =>
                    /\ h.pc = "done"
                    /\ h.response.status = 429
                    /\ h.response.body = "Rate limit exceeded"
                    /\ h.lookups = <<>> /\ h.client = NoClient /\ h.remoteCalls = 0
                    /\ http[i].pc = "idle" =>
                           /\ sessionStore' = sessionStore
                           /\ currentHttpRequest' = currentHttpRequest
      ]_vars

\* a POST request has been denied while the session its sessionId names was
\* due for a refresh, and the session still is
C14_Witness ==
    \E i \in Requests :
        /\ http[i].method = "POST"
        /\ Denied(http[i])
        /\ http[i].request.sessionId = Header(Sid1)
        /\ http[i].response.status = 429
        /\ Found(sessionStore, 1, now) = "live"
        /\ NeedsRefresh(sessionStore[1], now)

\* C15: every response of the endpoint carries the limiter's limit, remaining
\* and reset headers, the responses of the error path included, and every
\* 429 rejection carries Retry-After as well.
C15_HeadersOnEveryResponse ==
    \A i \in Requests :
        http[i].pc = "done" =>
            /\ {"X-RateLimit-Limit", "X-RateLimit-Remaining", "X-RateLimit-Reset"}
                   \subseteq DOMAIN http[i].response.headers
            /\ http[i].response.status = 429 =>
                   "Retry-After" \in DOMAIN http[i].response.headers

\* C17: a tool call whose required string field is missing or empty ends
\* with the validation error that names the field, whatever credential the
\* request carries, and without a remote call.
C17_InvalidInputReported ==
    \A i \in Requests :
        InvalidInput(http[i]) =>
            /\ http[i].pc \in {"responding", "done"}
            /\ http[i].toolResult.isError
            /\ http[i].toolResult.error = "Validation error"
            /\ Len(http[i].toolResult.details) = 1
            /\ http[i].toolResult.details[1][1] = RequiredField(http[i].call[1])
            /\ http[i].remoteCalls = 0

(***************************************************************************)
(* The client factory (C16), under SpecFactory.  A step of createClioClient*)
(* is one that leaves the clock and the ids issued as they are.            *)
(***************************************************************************)
FactoryStep == factoryLast'.called /\ now' = now /\ issued' = issued

\* what the Token Broker yields for a session id text before the step
Brokered(present, text) ==
    IF present THEN TokenOfGet(sessionStore, SessionKey(text), now) ELSE NoToken

IsBearerSession(h) == Truthy(h) /\ StartsWith(h.value, BearerSession)
IsBearerToken(h) == Truthy(h) /\ ~StartsWith(h.value, BearerSession) /\ StartsWith(h.value, Bearer)

\* the four sources of the claim, in its order, each with what it yields
SessionSources(r, cookie) ==
    << <<"session_query", Brokered(Truthy(r.sessionId), r.sessionId.value)>>,
       <<"session_header",
         Brokered(IsBearerSession(r.authorization), Substring(r.authorization.value, 15))>>,
       <<"session_header_x", Brokered(Truthy(r.xMcpSessionId), r.xMcpSessionId.value)>>,
       <<"cookie", cookie>> >>

\* the same with the token of a plain "Bearer <token>" Authorization header
\* as one more source, after the session id of that header
SourcesWithToken(r, cookie) ==
    << SessionSources(r, cookie)[1],
       SessionSources(r, cookie)[2],
       <<"direct_token",
         IF IsBearerToken(r.authorization)
         THEN CredentialOf(Substring(r.authorization.value, 7)) ELSE NoToken>>,
       SessionSources(r, cookie)[3],
       SessionSources(r, cookie)[4] >>

\* the first source that yields a credential, <<"none", NoToken>> if none does
FirstYield(sources) ==
    LET yielding == {k \in DOMAIN sources : sources[k][2] # NoToken}
    IN IF yielding = {} THEN <<"none", NoToken>>
       ELSE sources[CHOOSE k \in yielding : \A j \in yielding : k <= j]

ResolvedAs(sources) ==
    /\ <<factoryLast'.source, factoryLast'.token>> = FirstYield(sources)
    /\ (factoryLast'.token = NoToken) <=> (factoryLast'.threw = TokenNotFoundMessage)
    /\ (factoryLast'.token # NoToken) <=> (factoryLast'.threw = "")

\* C16 as claimed: the credential comes from the first of the sessionId
\* query parameter, the "Bearer session:<id>" header, the X-MCP-Session-ID
\* header (all three through the Token Broker) and the cookie that yields
\* one, from no other source, and without one the call fails.
C16_FourSourcesOnly ==
    [][ FactoryStep => ResolvedAs(SessionSources(factoryLast'.request, factoryLast'.cookie))
      ]_vars

\* C16 as amended: the credential comes from the first of the sessionId
\* query parameter, the "Bearer session:<id>" Authorization header, the token
\* of any other "Bearer <token>" Authorization header taken as it is, the
\* X-MCP-Session-ID header and the cookie that yields one; the session ids
\* go through the Token Broker, and without a credential the call fails
\* with the token-not-found error.
C16_SourcesInOrder ==
    [][ FactoryStep => ResolvedAs(SourcesWithToken(factoryLast'.request, factoryLast'.cookie))
      ]_vars

\* the session id of the Authorization header yielded nothing and the one of
\* the X-MCP-Session-ID header did
C16_Witness ==
    /\ factoryLast.called
    /\ factoryLast.source = "session_header_x"
    /\ factoryLast.lookups = <<2, 1>>
    /\ factoryLast.token = "tokA"

(***************************************************************************)
(* The Matter Intelligence Brief (C18 - C20), under SpecBrief.             *)
(***************************************************************************)
BriefDone == briefPhase = "done"

Failed(f) == fetches[f].status = "rejected"

Succeeded(f) == fetches[f].status = "fulfilled"

\* C18: a remote 401 on any call of an operation is fatal to it: here, when
\* one of the brief's three fetches was rejected with the authentication
\* error, the operation ends with that error and returns no brief.
C18_UnauthorizedIsFatal ==
    (BriefDone /\ \E f \in FetchNames : fetches[f].error = AuthMessage)
        => (brief.threw = AuthMessage /\ brief.markdown = <<>>)

\* the three contributions of a result
RecentActivityOf(r) == r.recent_activity
PendingTasksOf(r) == r.pending_tasks
MatterPartOf(r) == <<r.matter, r.case_metadata>>

\* C19: the three fetches are issued together, before any of them ends; and
\* whatever each ends with, a brief is returned and nothing is thrown, a
\* failed fetch contributes the empty result, a fetch that succeeded
\* contributes its own data, and no contribution changes when the other two
\* fetches end differently.
C19_BriefWhateverFails ==
    /\ (\E f \in FetchNames : fetches[f].status # "unissued")
           => \A f \in FetchNames : fetches[f].status # "unissued"
    /\ BriefDone =>
        /\ brief.threw = "" /\ brief.markdown # <<>>
        /\ Failed("file_notes") => RecentActivityOf(brief.result) = <<>>
        /\ Failed("calendar_entries") => PendingTasksOf(brief.result) = <<>>
        /\ Failed("matter") =>
               /\ brief.result.matter.display_number = ""
               /\ brief.result.case_metadata.custom_fields = <<>>
               /\ brief.result.case_metadata.related_contacts = <<>>
        /\ Succeeded("file_notes") =>
               LET notes == FirstFive(fetches["file_notes"].data)
                   shown == RecentActivityOf(brief.result)
               IN /\ DOMAIN shown = DOMAIN notes
                  /\ \A k \in DOMAIN notes :
                         /\ shown[k].note = notes[k].note
                         /\ shown[k].created_at = notes[k].created_at
        /\ Succeeded("calendar_entries") =>
               LET entries == fetches["calendar_entries"].data
                   tasks == PendingTasksOf(brief.result)
               IN /\ DOMAIN tasks = DOMAIN entries
                  /\ \A k \in DOMAIN entries :
                         /\ tasks[k].subject = entries[k].subject
                         /\ tasks[k].due_date = entries[k].start_at
        /\ Succeeded("matter") =>
               /\ brief.result.matter.display_number = fetches["matter"].data.display_number
               /\ brief.result.case_metadata.related_contacts = fetches["matter"].data.contacts
        /\ \A m \in FetchOutcomes("matter") : \A n \in FetchOutcomes("file_notes") :
           \A c \in FetchOutcomes("calendar_entries") :
               /\ RecentActivityOf(BriefResult(m, fetches["file_notes"], c))
                      = RecentActivityOf(brief.result)
               /\ PendingTasksOf(BriefResult(m, n, fetches["calendar_entries"]))
                      = PendingTasksOf(brief.result)
               /\ MatterPartOf(BriefResult(fetches["matter"], n, c))
                      = MatterPartOf(brief.result)

\* a brief returned although the matter and the calendar fetch failed, with
\* the file notes that were fetched in it
C19_Witness ==
    /\ BriefDone
    /\ Failed("matter") /\ Failed("calendar_entries") /\ Succeeded("file_notes")
    /\ fetches["matter"].error = AuthMessage
    /\ Len(brief.result.recent_activity) = 2
    /\ brief.result.pending_tasks = <<>>
    /\ brief.markdown # <<>>

\* the lines of a document after line a and before line b
LinesBetween(lines, a, b) == SubSeq(lines, a + 1, b - 1)

\* some line of the section is not blank
HasText(section) == \E k \in DOMAIN section : section[k] # <<>>

\* C20: every brief has the sections Recent Activity, Pending Tasks and Case
\* Metadata in that order, and a section with nothing to show (no file
\* notes; no calendar entries; neither custom fields nor related contacts)
\* has a placeholder line under its heading.
C20_SectionsAndPlaceholders ==
    BriefDone =>
        LET lines == brief.markdown
            r == brief.result
        IN \E a, b, c \in DOMAIN lines :
               /\ a < b /\ b < c
               /\ lines[a] = <<"## Recent Activity">>
               /\ lines[b] = <<"## Pending Tasks">>
               /\ lines[c] = <<"## Case Metadata">>
               /\ r.recent_activity = <<>> => HasText(LinesBetween(lines, a, b))
               /\ r.pending_tasks = <<>> => HasText(LinesBetween(lines, b, c))
               /\ (r.case_metadata.custom_fields = <<>>
                       /\ r.case_metadata.related_contacts = <<>>)
                      => HasText(LinesBetween(lines, c, Len(lines) + 1))

\* the place of a day among the days
DayNumber(day) == CHOOSE k \in DOMAIN Days : Days[k] = day

\* the matter has more than five file notes and they were fetched
ManyNotesFetched == Succeeded("file_notes") /\ Len(fetches["file_notes"].data) > 5

\* the items of recent activity as the document shows them: the lines that
\* carry a creation time, under the Recent Activity heading
ShownCreationTimes ==
    LET a == CHOOSE k \in DOMAIN brief.markdown : brief.markdown[k] = <<"## Recent Activity">>
        b == CHOOSE k \in DOMAIN brief.markdown : brief.markdown[k] = <<"## Pending Tasks">>
        section == LinesBetween(brief.markdown, a, b)
        shown == SelectSeq(section, LAMBDA line : Len(line) = 2 /\ line[1] = "### ")
    IN [k \in DOMAIN shown |-> shown[k][2]]

\* C21: for a matter with more than five file notes the Recent Activity
\* section shows at most five notes, and the notes shown are ordered
\* most-recent-first by creation time.
C21_FiveMostRecentFirst ==
    (BriefDone /\ ManyNotesFetched) =>
        /\ Len(ShownCreationTimes) <= 5
        /\ \A i, j \in DOMAIN ShownCreationTimes :
               i < j => DayNumber(ShownCreationTimes[i]) >= DayNumber(ShownCreationTimes[j])

(***************************************************************************)
(* The Ethical Conflict Check (C22, C23), under SpecConflict.              *)
(***************************************************************************)
ConflictDone == ccPhase = "done"

\* the searches that have failed
FailedSearches == {call \in ConflictCalls : ccSearch[call].status = "rejected"}

\* C22: the dual search is all-or-nothing: once the contact search or the
\* matter search has failed, the operation has ended with the error of a
\* failed search, no report and no part of one is returned, and no listing
\* and no detail fetch has been issued.
C22_SearchAllOrNothing ==
    FailedSearches # {} =>
        /\ ConflictDone
        /\ ~ccResult.returned
        /\ ccResult.threw \in {ccSearch[call].error : call \in FailedSearches}
        /\ ccResult.direct_matches = <<>>
        /\ ccResult.related_party_matches = <<>>
        /\ ccResult.closed_matter_history = <<>>
        /\ ccIssued = <<"contacts", "matters">>
        /\ ccListing.status = "unissued"
        /\ ccDetails = <<>>

\* the contact search found a contact, the matter search failed, and the
\* operation ended with the error of the matter search
C22_Witness ==
    /\ ConflictDone
    /\ ccSearch["contacts"].status = "fulfilled"
    /\ Len(ccSearch["contacts"].data) = 1
    /\ ccSearch["matters"].status = "rejected"
    /\ ccResult.threw = NotFoundMessage
    /\ ~ccResult.returned

\* the entries of the report that name candidate k as their source
EntriesOf(k) ==
    SelectSeq(ccResult.related_party_matches,
              LAMBDA entry : entry.source_matter_id = ccCandidates[k].id)

\* the related contacts and the custom fields of the detail of candidate k
\* that contain the query, whatever the case of the letters
ContactsFound(k) ==
    {i \in DOMAIN ccDetails[k].data.contacts :
        Includes(ToLowerCase(ccDetails[k].data.contacts[i].name), ToLowerCase(ccQuery))}
FieldsFound(k) ==
    {i \in DOMAIN ccDetails[k].data.custom_fields :
        Includes(ToLowerCase(ccDetails[k].data.custom_fields[i].value), ToLowerCase(ccQuery))}

\* the candidates whose detail was fetched
Fetched == {k \in DOMAIN ccDetails : ccDetails[k].status = "fulfilled"}

\* C23: in a report, for every candidate matter whose detail was fetched the
\* related-party matches hold one entry for each related contact whose name
\* contains the query and one for each custom field whose value contains
\* it, each with the matter's id, its number and the relationship or field
\* description, and no other entry; the query "jane" gives a direct contact
\* match and a related-party match from matter 12345, and a query found
\* nowhere gives empty direct and related-party matches.
C23_RelatedPartyMatches ==
    (ConflictDone /\ ccResult.returned) =>
        /\ \A k \in Fetched :
               LET matter == ccCandidates[k]
                   detail == ccDetails[k].data
               IN /\ Len(EntriesOf(k)) = Cardinality(ContactsFound(k)) + Cardinality(FieldsFound(k))
                  /\ \A i \in ContactsFound(k) : \E e \in DOMAIN EntriesOf(k) :
                         /\ EntriesOf(k)[e].type = "contact"
                         /\ EntriesOf(k)[e].name = detail.contacts[i].name
                         /\ EntriesOf(k)[e].relationship
                                \in {<<detail.contacts[i].role>>, <<"Related Contact">>}
                         /\ EntriesOf(k)[e].source_matter_number = matter.display_number
                  /\ \A i \in FieldsFound(k) : \E e \in DOMAIN EntriesOf(k) :
                         /\ EntriesOf(k)[e].type = "matter"
                         /\ EntriesOf(k)[e].id = matter.id
                         /\ Len(EntriesOf(k)[e].relationship) = 3
                         /\ EntriesOf(k)[e].relationship[3] = detail.custom_fields[i].value
                         /\ EntriesOf(k)[e].source_matter_number = matter.display_number
        /\ \A e \in DOMAIN ccResult.related_party_matches :
               \E k \in Fetched :
                   ccResult.related_party_matches[e].source_matter_id = ccCandidates[k].id
        /\ (ccQuery = <<"j", "a", "n", "e">>
               /\ \E k \in Fetched : ccCandidates[k].id = "12345") =>
               /\ \E e \in DOMAIN ccResult.direct_matches :
                      ccResult.direct_matches[e].type = "contact"
               /\ \E e \in DOMAIN ccResult.related_party_matches :
                      ccResult.related_party_matches[e].source_matter_id = "12345"
        /\ ccQuery = <<"z", "z">> =>
               /\ ccResult.direct_matches = <<>>
               /\ ccResult.related_party_matches = <<>>

\* a report for "jane": the contact found directly, and from matter 12345 the
\* related contact Jane and the opposing counsel JANET
C23_Witness ==
    /\ ConflictDone /\ ccResult.returned
    /\ ccQuery = <<"j", "a", "n", "e">>
    /\ \E k \in Fetched : ccCandidates[k].id = "12345" /\ Len(EntriesOf(k)) = 2
    /\ \E e \in DOMAIN ccResult.direct_matches : ccResult.direct_matches[e].type = "contact"
    /\ \E k \in DOMAIN ccDetails : ccDetails[k].status = "rejected"

(***************************************************************************)
(* The Unbilled Activity Audit (C24 - C26), under SpecAudit.               *)
(***************************************************************************)
AuditDone == auPhase = "done"

\* C24: the activities endpoint is called first; the time_entries endpoint
\* is called only after that call has failed and never when it succeeded;
\* when both calls fail the operation ends with the descriptive error and
\* returns no report.
C24_FallbackOnlyAfterFailure ==
    /\ auCalls \in {<<>>, <<"activities">>, <<"activities", "time_entries">>}
    /\ auFallback.status # "unissued" <=> auCalls = <<"activities", "time_entries">>
    /\ auCalls = <<"activities", "time_entries">> => auPrimary.status = "rejected"
    /\ auPrimary.status = "fulfilled" =>
           (auCalls = <<"activities">> /\ AuditDone /\ audit.returned)
    /\ (auPrimary.status = "rejected" /\ auFallback.status = "fulfilled") =>
           (AuditDone /\ audit.returned)
    /\ (auPrimary.status = "rejected" /\ auFallback.status = "rejected") =>
           /\ AuditDone
           /\ ~audit.returned
           /\ audit.threw = UnableToFetchMessage
           /\ audit.report = <<>>

\* both endpoints were called, in that order, both failed, and the operation
\* ended with the descriptive error
C24_Witness ==
    /\ AuditDone
    /\ auCalls = <<"activities", "time_entries">>
    /\ auPrimary.error = NotFoundMessage
    /\ auFallback.error = NotFoundMessage
    /\ audit.threw = UnableToFetchMessage

\* the activities the audit was made of
Audited == IF auPrimary.status = "fulfilled" THEN auPrimary.data ELSE auFallback.data

\* the amount of an activity as stated: the amount provided, be it zero;
\* else time spent times rate when both are there; else zero
StatedAmount(activity) ==
    IF activity.billable_amount # <<>> THEN activity.billable_amount[1]
    ELSE IF activity.time_spent # <<>> /\ activity.rate # <<>>
         THEN activity.time_spent[1] * activity.rate[1]
    ELSE 0

\* the activity of the result that has the id
ResultActivity(id) ==
    audit.result.activities[CHOOSE k \in DOMAIN audit.result.activities :
                                audit.result.activities[k].id = id]

\* C25: in an audit each activity's billable amount is the amount provided
\* when one is provided, a provided zero included, otherwise time spent
\* times rate when both are present, otherwise zero, and the total reported
\* is the sum of these amounts.
C25_AmountsAndTotal ==
    (AuditDone /\ audit.returned) =>
        /\ Len(audit.result.activities) = Len(Audited)
        /\ \A k \in DOMAIN Audited :
               ResultActivity(Audited[k].id).billable_amount = StatedAmount(Audited[k])
        /\ audit.result.total_billable_amount
               = Sum([k \in DOMAIN Audited |-> StatedAmount(Audited[k])])
        /\ audit.report[4]
               = <<"**Total Billable Amount:** $">>
                     \o ToFixed2(Sum([k \in DOMAIN Audited |-> StatedAmount(Audited[k])]))

\* a text is blank
IsBlank(text) == Len(Trim(text)) = 0

\* C26: a description is flagged exactly when it is blank, or shorter than 15
\* characters once trimmed, or matches a low-information pattern; the reason
\* is "Empty description" for a blank one, the pattern reason for one that
\* matches a pattern, the too-short reason for one under 15 characters that
\* matches no pattern; a description of 15 characters or more that matches
\* no pattern is not flagged.
C26_VagueAndReason ==
    (AuditDone /\ audit.returned) =>
        \A k \in DOMAIN audit.result.activities :
            LET a == audit.result.activities[k]
                d == a.description
                short == Len(Trim(d)) < 15
                pattern == MatchesVaguePattern(Trim(d))
            IN /\ a.vague_description_flag <=> (IsBlank(d) \/ short \/ pattern)
               /\ a.vague_description_flag =>
                      a.vague_reason =
                          IF IsBlank(d) THEN EmptyReason
                          ELSE IF pattern THEN PatternReason
                          ELSE TooShortReason(Len(Trim(d)))
               /\ ~a.vague_description_flag => a.vague_reason = <<>>

(***************************************************************************)
(* PII redaction (C27), under SpecRedact.  redactOutputs[1] is redact(x)   *)
(* and redactOutputs[2] is redact(redact(x)) for the input text x.         *)
(***************************************************************************)
\* C27: redact is idempotent: redacting an already redacted text gives the
\* same text, so no output of one pass is altered by a second pass.
C27_Idempotent ==
    Len(redactOutputs) >= 2 => redactOutputs[2] = redactOutputs[1]

(***************************************************************************)
(* The client instance under a fan-out (C28, C29), under SpecInstance.  A  *)
(* step that receives a response is one that increases ciReceived.         *)
(***************************************************************************)
\* the fields a record of a request, a response or an error may carry beside
\* its message: the redacted path, the duration, the retry count and the
\* rate-limit remaining (method and status are part of the message)
MetadataKeys == {KeyUrl, KeyDuration, KeyRetryCount, KeyRateLimitRemaining}

\* the texts of a record: its message and the values of its fields
RecordTexts(r) == {r.message} \cup {r.data[k].value : k \in DOMAIN r.data}

\* a record of a request, a response or an error carries fields other than
\* the metadata
CarriesOtherFields(r) ==
    r.level # "warn" /\ \E k \in DOMAIN r.data : r.data[k].key \notin MetadataKeys

\* a record carries the free-text search query as it was given
CarriesQuery(r) == \E t \in RecordTexts(r) : Includes(t, ciQuery)

\* C28: every record the client logs for a request, a response or an error
\* carries only method, redacted path, duration, status, retry count and
\* rate-limit remaining, and no record carries the value of a query
\* parameter such as the free-text search query.
C28_LogsOnlyMetadata ==
    \A k \in DOMAIN ciLog : ~CarriesOtherFields(ciLog[k]) /\ ~CarriesQuery(ciLog[k])

\* the estimate a response leaves behind, were its headers read
EstimateAfter(o, before) ==
    [remaining |-> IF o.remaining.present THEN ParseInt(o.remaining.value)
                   ELSE before.remaining,
     resetAt |-> IF o.reset.present THEN Times(ParseInt(o.reset.value), 1000)
                 ELSE before.resetAt]

\* C29: the estimate is remaining = 1000 before any response; every response
\* received, successful or error, sets it to the values of the rate-limit
\* headers it carries and leaves it as it was where it carries none; no
\* other step changes it, whichever call of the instance the step belongs to.
C29_EstimateFollowsResponses ==
    /\ [](ciReceived = 0 => rateLimitState.remaining = Num(defaultRemaining))
    /\ [][IF ciReceived' # ciReceived
          THEN rateLimitState' = EstimateAfter(ciLast'.outcome, rateLimitState)
          ELSE rateLimitState' = rateLimitState]_vars

(***************************************************************************)
(* Concurrent requests on the invocation endpoint (C30), under SpecRoute.  *)
(* The step in which the tool handler of request i runs is the one that    *)
(* fills in http[i].call.                                                  *)
(***************************************************************************)
\* the tool handler of request i runs in this step
ToolHandlerRuns(i) == http[i].call = NoCall /\ http'[i].call # NoCall

\* C30: whatever the interleaving of the requests in flight, the tool handler
\* of a request resolves its credential from the request that carried the
\* invocation: the request stored for tool handlers is that request, not
\* another request in flight and not cleared by a request that has finished.
C30_OwnRequestContext ==
    [][\A i \in 1..MaxRequests : ToolHandlerRuns(i) => currentHttpRequest = i]_vars

(***************************************************************************)
(* The session store over time (C31 - C33), under SpecSessions.            *)
(***************************************************************************)
\* C31: the sweep is housekeeping only: what resolve and what the session
\* info lookup return for an id is the same after the sweep as before it,
\* and the sweep removes no session that has not expired.
C31_SweepIsHousekeeping ==
    [][OpStep("sweep") =>
         /\ \A id \in KnownIds :
               /\ TokenOfGet(sessionStore', id, now) = TokenOfGet(sessionStore, id, now)
               /\ SessionInfo(sessionStore', id) = SessionInfo(sessionStore, id)
         /\ \A id \in DOMAIN sessionStore :
               sessionStore[id].expiresAt >= now =>
                   id \in DOMAIN sessionStore' /\ sessionStore'[id] = sessionStore[id]]_vars

\* C32: every stored session has expiresAt >= createdAt, and from one state
\* to the next a stored session's expiresAt never decreases and its
\* credential and createdAt never change.
C32_ExpiryMonotone ==
    /\ [](\A id \in DOMAIN sessionStore :
             sessionStore[id].expiresAt >= sessionStore[id].createdAt)
    /\ [][\A id \in DOMAIN sessionStore \cap DOMAIN sessionStore' :
             /\ sessionStore'[id].expiresAt >= sessionStore[id].expiresAt
             /\ sessionStore'[id].token = sessionStore[id].token
             /\ sessionStore'[id].createdAt = sessionStore[id].createdAt]_vars

\* a session has been extended beyond 30 days after its creation
C32_Witness ==
    /\ lastOp.op = "resolve"
    /\ lastOp.id \in DOMAIN sessionStore
    /\ sessionStore[lastOp.id].expiresAt
           > sessionStore[lastOp.id].createdAt + 30 * 24 * 60 * 60
    /\ sessionStore[lastOp.id].token = issued[lastOp.id]

\* C33: after a resolve with auto-refresh that returned the credential at
\* time t the session expires no earlier than t + 7 days, so it is still
\* stored and unexpired when the clock then advances by up to 7 days; and a
\* session that has not expired leaves the store only by a revoke of its id.
C33_SevenDaysAfterResolve ==
    [][/\ (OpStep("resolve") /\ lastOp'.autoRefresh /\ lastOp'.token # NoToken) =>
            /\ lastOp'.id \in DOMAIN sessionStore'
            /\ sessionStore'[lastOp'.id].expiresAt >= now + 7 * 24 * 60 * 60
       /\ (/\ lastOp.op = "resolve" /\ lastOp.autoRefresh /\ lastOp.token # NoToken
           /\ now' > now /\ now' <= now + 7 * 24 * 60 * 60) =>
            /\ lastOp.id \in DOMAIN sessionStore'
            /\ sessionStore'[lastOp.id].expiresAt >= now'
       /\ \A id \in DOMAIN sessionStore :
            (sessionStore[id].expiresAt >= now /\ id \notin DOMAIN sessionStore') =>
                (OpStep("revoke") /\ lastOp'.id = id)]_vars

\* a session resolved with exactly 7 days left: not refreshed, and expiring
\* exactly 7 days after the resolve
C33_Witness ==
    /\ lastOp.op = "resolve"
    /\ lastOp.autoRefresh
    /\ lastOp.found = "live"
    /\ lastOp.id \in DOMAIN sessionStore
    /\ sessionStore[lastOp.id].expiresAt = now + 7 * 24 * 60 * 60

(***************************************************************************)
(* The caller's retry (C34), under SpecRetry.                              *)
(***************************************************************************)
\* C34: when an identity was denied at time t with Retry-After r seconds,
\* its next request, made at any time >= t + r seconds, is allowed; this
\* includes the request made exactly r seconds later, at the instant the
\* window's resetAt is reached.
C34_RetryAfterSuffices ==
    [][(/\ CheckStep
        /\ lastDenial # NoDenial
        /\ rlLast'.identifier = lastDenial.identifier
        /\ rlNow >= lastDenial.at + 1000 * lastDenial.retryAfter) =>
            rlLast'.allowed]_vars

(***************************************************************************)
(* The candidates of the conflict check (C35), under SpecCandidates.       *)
(***************************************************************************)
\* the remote calls of a kind issued so far
IssuedOf(kind) == {k \in DOMAIN ccIssued : ccIssued[k] = kind}

\* C35: the candidate matters are the search hits followed by the matters
\* of the full listing that are not among the hits, with no id twice; the
\* listing is fetched only after both searches completed and only when the
\* matter search returned fewer than 100 matters; detail is fetched for the
\* first 20 candidates at most, so at most 2 + 1 + 20 remote calls are
\* issued, the searches first, then the listing, then the detail fetches.
C35_CandidateSet ==
    LET hits == ccSearch["matters"].data
        listed == IF ccListing.status = "fulfilled"
                  THEN SelectSeq(ccListing.data,
                                 LAMBDA m : \A k \in DOMAIN hits : hits[k].id # m.id)
                  ELSE <<>>
        all == hits \o listed
    IN /\ ccPhase \in {"details", "done"} /\ ccResult.threw = "" =>
             /\ Len(ccCandidates) = (IF Len(all) < 20 THEN Len(all) ELSE 20)
             /\ \A k \in DOMAIN ccCandidates : ccCandidates[k] = all[k]
             /\ \A j, k \in DOMAIN ccCandidates : j # k => ccCandidates[j].id # ccCandidates[k].id
             /\ DOMAIN ccDetails = DOMAIN ccCandidates
             /\ Cardinality(IssuedOf("detail")) = Len(ccCandidates)
       /\ IssuedOf("listing") # {} =>
             /\ \A call \in ConflictCalls : ccSearch[call].status = "fulfilled"
             /\ Len(hits) < 100
       /\ Cardinality(IssuedOf("listing")) <= 1
       /\ Cardinality(IssuedOf("detail")) <= 20
       /\ Len(ccIssued) <= 2 + 1 + 20
       /\ \A j, k \in DOMAIN ccIssued :
             j < k => /\ ccIssued[j] = "detail" => ccIssued[k] = "detail"
                      /\ ccIssued[j] = "listing" => ccIssued[k] = "detail"

\* 19 hits and a listing of 100: 20 candidates, the last one from the
\* listing, and 23 remote calls
C35_Witness ==
    /\ ccPhase = "done"
    /\ ccResult.returned
    /\ Len(ccSearch["matters"].data) = 19
    /\ ccListing.status = "fulfilled"
    /\ Len(ccListing.data) = 100
    /\ Len(ccCandidates) = 20
    /\ ccCandidates[20] = ccListing.data[20]
    /\ Len(ccIssued) = 23

(***************************************************************************)
(* A failed detail fetch (C36), under SpecConflict.                        *)
(***************************************************************************)
\* a matter detail without contacts and without custom fields
EmptyDetail == Fulfilled([contacts |-> <<>>, custom_fields |-> <<>>])

\* the detail fetches, every failed one taken as one that returned nothing
FailuresEmptied ==
    [k \in DOMAIN ccDetails |->
        IF ccDetails[k].status = "rejected" THEN EmptyDetail ELSE ccDetails[k]]

\* C36: when detail fetches of candidates fail, the operation still returns
\* a report, and its direct matches, its closed-matter history and its
\* related-party matches are those of the run in which every failed fetch
\* had returned a matter without contacts and without custom fields: only
\* the contributions of the failed matters are missing.
C36_DetailFailureIsolated ==
    (ccPhase = "done" /\ \A call \in ConflictCalls : ccSearch[call].status = "fulfilled") =>
        /\ ccResult.returned
        /\ ccResult.threw = ""
        /\ ccResult.direct_matches =
               DirectMatches(ccSearch["contacts"].data, ccSearch["matters"].data)
        /\ ccResult.closed_matter_history = ClosedMatterHistory(ccSearch["matters"].data)
        /\ ccResult.related_party_matches = Flat(ccCandidates, FailuresEmptied, ccQuery)
        /\ \A k \in DOMAIN ccDetails :
               ccDetails[k].status = "rejected" =>
                   \A e \in DOMAIN ccResult.related_party_matches :
                       ccResult.related_party_matches[e].source_matter_id # ccCandidates[k].id

\* the detail fetch of matter 12345 failed, and the report for "jane" has
\* the direct matches and the match from the custom field of matter 12347
C36_Witness ==
    /\ ccPhase = "done"
    /\ ccResult.returned
    /\ ccQuery = <<"j", "a", "n", "e">>
    /\ \E k \in DOMAIN ccDetails :
           ccCandidates[k].id = "12345" /\ ccDetails[k].status = "rejected"
    /\ \E e \in DOMAIN ccResult.related_party_matches :
           ccResult.related_party_matches[e].source_matter_id = "12347"
    /\ ccResult.direct_matches # <<>>

(***************************************************************************)
(* The order in which the calls of a fan-out end (C37), under SpecFanOut.  *)
(***************************************************************************)
\* the place of the matter a related-party match comes from among the candidates
CandidateOf(entry) ==
    CHOOSE k \in DOMAIN ccCandidates : ccCandidates[k].id = entry.source_matter_id

\* C37: the brief and the conflict report are determined by what the remote
\* calls ended with, whatever the order they ended in: the brief is the one
\* built from the three outcomes, the conflict report the one built from
\* the search, listing and detail outcomes, and its related-party matches
\* are listed in the order of the candidates.
C37_OrderIndependent ==
    /\ briefPhase = "done" =>
          /\ brief.threw = ""
          /\ brief.result = BriefResult(fetches["matter"], fetches["file_notes"],
                                        fetches["calendar_entries"])
          /\ brief.markdown = formatIntelligenceBriefAsMarkdown(brief.result)
    /\ (ccPhase = "done" /\ ccResult.returned) =>
          LET hits == ccSearch["matters"].data
          IN /\ ccCandidates =
                    FirstTwenty(IF ccListing.status = "fulfilled"
                                THEN MergeMatters(hits, ccListing.data) ELSE hits)
             /\ ccResult.direct_matches = DirectMatches(ccSearch["contacts"].data, hits)
             /\ ccResult.closed_matter_history = ClosedMatterHistory(hits)
             /\ ccResult.related_party_matches =
                    Concat([k \in DOMAIN ccCandidates |->
                               RelatedPartyMatches(ccCandidates[k], ccDetails[k], ccQuery)])
             /\ \A d, e \in DOMAIN ccResult.related_party_matches :
                    d < e => CandidateOf(ccResult.related_party_matches[d])
                                 <= CandidateOf(ccResult.related_party_matches[e])

\* both operations are over; the detail fetch of the last candidate ended
\* first, that of matter 12345 after that of matter 12347, and both matters
\* have matches in the report
C37_Witness ==
    /\ briefPhase = "done"
    /\ ccPhase = "done"
    /\ ccResult.returned
    /\ Len(ccCandidates) = 3
    /\ ccSettled[1] = 3
    /\ \E d, e \in DOMAIN ccResult.related_party_matches :
           /\ ccResult.related_party_matches[d].source_matter_id = "12345"
           /\ ccResult.related_party_matches[e].source_matter_id = "12347"
           /\ d < e
    /\ ccCandidates[2].id = "12345"
    /\ ccCandidates[3].id = "12347"

(***************************************************************************)
(* The sections of the audit report (C38), under SpecAudit.                *)
(***************************************************************************)
\* the lines of the report that begin with a given piece
LinesWith(piece) ==
    {k \in DOMAIN audit.report : audit.report[k] # <<>> /\ audit.report[k][1] = piece}

VagueHeadings == LinesWith("## Vague Descriptions (")
VagueItems == LinesWith("### Activity ")
ClearHeadings == LinesWith("## Clear Descriptions (")
ClearItems == LinesWith("- **")
OverflowNotes == LinesWith("*... and ")

\* C38: in every audit report the vague and the clear section partition the
\* activities: the vague count of the summary is the number of items of the
\* vague section, each of them has its reason, the total is the vague plus
\* the clear ones, the vague section comes before the clear one, at most 20
\* clear items are shown, and beyond 20 the note gives clear - 20 exactly;
\* with no activities the report is the summary with total 0.00 and the
\* no-activities line.
C38_ReportPartition ==
    (auPhase = "done" /\ audit.returned) =>
        LET report == audit.report
            total == Len(Audited)
            vague == Cardinality(VagueItems)
            clear == total - vague
        IN /\ report[3] = <<"**Total Unbilled Activities:** ">> \o Digits(total)
           /\ SubSeq(report[5], 1, 1 + Len(Digits(vague)))
                  = <<"**Vague Descriptions:** ">> \o Digits(vague)
           /\ Len(report[5]) = 2 + Len(Digits(vague))
           /\ \A k \in VagueItems :
                  /\ report[k + 3] # <<>>
                  /\ report[k + 3][1] = "- **Issue:** "
                  /\ Len(report[k + 3]) > 1
                  /\ \E a \in DOMAIN audit.result.activities :
                         /\ audit.result.activities[a].id = report[k][2]
                         /\ audit.result.activities[a].vague_description_flag
           /\ clear >= 0
           /\ Cardinality(VagueHeadings) = (IF vague > 0 THEN 1 ELSE 0)
           /\ \A h \in VagueHeadings :
                  report[h] = <<"## Vague Descriptions (">> \o Digits(vague) \o <<")">>
           /\ Cardinality(ClearHeadings) = (IF clear > 0 THEN 1 ELSE 0)
           /\ \A h \in ClearHeadings :
                  /\ report[h] = <<"## Clear Descriptions (">> \o Digits(clear) \o <<")">>
                  /\ \A k \in VagueHeadings \cup VagueItems : k < h
                  /\ \A k \in ClearItems \cup OverflowNotes : h < k
           /\ Cardinality(ClearItems) = (IF clear < 20 THEN clear ELSE 20)
           /\ Cardinality(OverflowNotes) = (IF clear > 20 THEN 1 ELSE 0)
           /\ \A k \in OverflowNotes :
                  report[k] = <<"*... and ">> \o Digits(clear - 20)
                                  \o <<" more clear activities*">>
           /\ total = 0 =>
                  /\ report[4] = <<"**Total Billable Amount:** $", "0", ".", "0", "0">>
                  /\ report[Len(report)] = <<"*No unbilled activities found.*">>
                  /\ Len(report) = 9

\* a report of 30 activities: 3 vague items, 20 of the 27 clear ones shown
\* and the note for the other 7
C38_Witness ==
    /\ auPhase = "done"
    /\ audit.returned
    /\ Len(Audited) = 30
    /\ Cardinality(VagueItems) = 3
    /\ Cardinality(ClearItems) = 20
    /\ \E k \in OverflowNotes :
           audit.report[k] = <<"*... and ", "7", " more clear activities*">>

(***************************************************************************)
(* Concurrent calls on one client instance (C39), under SpecInstance.      *)
(***************************************************************************)
\* call goes from one phase to another in this step
Moves(call, from, to) == ciCalls[call].phase = from /\ ciCalls'[call].phase = to

\* C39: the retry budget belongs to one call: a step of one call leaves the
\* phase, the retry count and the result of every other call as they are;
\* a call's count is 0 when it is issued, changes only when it is retried
\* and is then exactly one higher; whether a call that was answered 429 or
\* 5xx is retried depends on its own count alone (below 3: retried; at 3:
\* it fails), so no call's count exceeds 3.
C39_OwnRetryBudget ==
    /\ [](\A call \in InstanceCalls : ciCalls[call].retryCount \in 0..3)
    /\ [][\A call \in InstanceCalls :
             /\ ciCalls'[call] # ciCalls[call] =>
                    \A other \in InstanceCalls \ {call} : ciCalls'[other] = ciCalls[other]
             /\ Moves(call, "unissued", "inflight") => ciCalls'[call].retryCount = 0
             /\ Moves(call, "sleeping", "inflight") =>
                    /\ ciCalls'[call].retryCount = ciCalls[call].retryCount + 1
                    /\ ciCalls'[call].result = Pending
             /\ ciCalls'[call].retryCount # ciCalls[call].retryCount =>
                    Moves(call, "sleeping", "inflight")
             /\ Moves(call, "inflight", "sleeping") => ciCalls[call].retryCount < 3
             /\ (/\ ciCalls[call].phase = "inflight"
                 /\ ciCalls'[call] # ciCalls[call]
                 /\ ciReceived' = ciReceived + 1
                 /\ ciLast'.outcome.status = 429 \/ ciLast'.outcome.status >= 500) =>
                    IF ciCalls[call].retryCount < 3
                    THEN ciCalls'[call].phase = "sleeping"
                    ELSE ciCalls'[call].phase = "done"
                             /\ ciCalls'[call].result.kind \in {"Error", "AxiosError"}]_vars

\* one call has used its three retries and failed; the other call, issued
\* on the same instance, is at its first retry
C39_Witness ==
    \E call, other \in InstanceCalls :
        /\ ciCalls[call].phase = "done"
        /\ ciCalls[call].retryCount = 3
        /\ ciCalls[call].result = PlainError(RateLimitMessage)
        /\ ciCalls[other].phase = "inflight"
        /\ ciCalls[other].retryCount = 1

(***************************************************************************)
(* Every call completes (C40), under SpecCompletes.                        *)
(***************************************************************************)
UnderWay == phase \in {"inflight", "sleeping"}

\* C40: a call makes at most 4 attempts, and a call under way eventually
\* completes, with a response or with an error, whatever the remote does:
\* answers 429 or 5xx every time, or does not answer within the timeout.
C40_EveryCallCompletes ==
    /\ [](attempts <= 4)
    /\ [](phase = "done" => result # Pending)
    /\ (UnderWay ~> phase = "done")

\* a call that was answered 429 and 5xx and then not at all: its fourth
\* attempt ran into the timeout, and the call ended with that error
C40_Witness ==
    /\ phase = "done"
    /\ attempts = 4
    /\ Len(outcomes) = 4
    /\ outcomes[1].status = 429
    /\ outcomes[2].status >= 500
    /\ outcomes[4].kind = "timeout"
    /\ clientNow = sentAt + timeout
    /\ result = AxiosError(TimedOut)

====
